---- MODULE Spec2Model ----
(***************************************************************************)
(* Amazon Ads MCP adapter: the report workflow                             *)
(* (handleGetReports -> generateReport -> pollReportStatus ->              *)
(* downloadReportData), the scoped HTTP client (headers, setProfile, error *)
(* classification), the retry executors (retryWithBackoff,                 *)
(* retryRateLimit), the metric formulas, the handlers handleHealthcheck,   *)
(* handleGetProfiles and the four list handlers, the date utilities, and   *)
(* the two transports (HTTP and stdio) with the client factory and the     *)
(* token exchange.                                                         *)
(*                                                                         *)
(* An async function runs atomically between two awaits, so every action   *)
(* is one such segment: it consumes the answer of the pending request (or  *)
(* the end of the pending sleep), runs the code up to the next await and   *)
(* leaves the next request issued (or the sleep started).                  *)
(*                                                                         *)
(* Optional JavaScript values are sequences of length <= 1: <<>> is        *)
(* undefined/null, <<v>> is the value v.  A message is a sequence of       *)
(* chunks: the pieces of the template literal that built it.  A number     *)
(* that need not be an integer is an exact fraction.                       *)
(***************************************************************************)
EXTENDS Integers, Sequences, FiniteSets, TLC

VARIABLES
    args,        \* the arguments of the get_reports call
    client,      \* the AmazonAdsClient instance handed to the handler
    pc,          \* where handleGetReports is suspended
    reportId,    \* generateReport: const reportId
    maxAttempts, \* pollReportStatus: parameter maxAttempts
    pollIntervalMs, \* pollReportStatus: parameter pollIntervalMs
    attempts,    \* pollReportStatus: let attempts
    requests,    \* every upstream request issued, in order, with its answer
    sleeps,      \* every sleep(ms) of the workflow, in order
    thrown,      \* the error handleGetReports raised to its caller, if any
    returned,    \* the value handleGetReports returned, if any
    pendingBody, \* the payload the upstream sends while the report is not finished
    retry,       \* one run of retryWithBackoff / retryRateLimit
    metric,      \* one application of the metric formulas
    tool,        \* one call of handleHealthcheck / handleGetProfiles
    inst,        \* one AmazonAdsClient instance and what was called on it
    parked,      \* the other get_reports invocation, suspended at an await
    date,        \* one application of the date utilities
    rpc,         \* one HTTP request to POST /mcp
    stdio        \* one tools/call request on the stdio transport

wfVars ==
    <<args, client, pc, reportId, maxAttempts, pollIntervalMs, attempts, requests,
      sleeps, thrown, returned, pendingBody>>
sideVars == <<metric, tool, inst, parked, date, rpc, stdio>>
vars ==
    <<args, client, pc, reportId, maxAttempts, pollIntervalMs, attempts, requests,
      sleeps, thrown, returned, pendingBody, retry, metric, tool, inst, parked,
      date, rpc, stdio>>

-----------------------------------------------------------------------------
(* Bounds of the model *)

MaxRows == 3          \* longest downloaded array
MaxRetryAttempts == 4 \* largest maxAttempts handed to a retry executor
MaxAmount == 4        \* largest numerator of a number handed to a metric formula
MaxProfiles == 2      \* longest array of profiles
MaxClientCalls == 4   \* most calls made on one client instance
MaxInterleavedPolls == 2 \* most unfinished answers to one of two interleaved invocations
MaxPollCeiling == 4    \* largest attempt ceiling passed to pollReportStatus, the default aside
MaxMonthField == 13   \* largest month field of a date string
MaxDayField == 32     \* largest day field of a date string

-----------------------------------------------------------------------------
(* JavaScript values *)

Undefined == <<>>
Null == <<>>
Some(v) == <<v>>

\* JavaScript truthiness of an optional string: undefined and '' are falsy.
Truthy(o) == o # Undefined /\ o[1] # ""

\* o || d for an optional string o.
OrElse(o, d) == IF Truthy(o) THEN o[1] ELSE d

\* String.prototype.includes on a message built from chunks.
Includes(msg, s) == s = "" \/ \E i \in 1..Len(msg) : msg[i] = s

RECURSIVE Join(_)
\* Array.prototype.join(','): the elements with commas between them.
Join(list) ==
    IF Len(list) = 0 THEN <<>>
    ELSE IF Len(list) = 1 THEN <<list[1]>>
    ELSE <<list[1], ",">> \o Join(Tail(list))

-----------------------------------------------------------------------------
(* Numbers that need not be integers: exact fractions n/d in lowest terms, d > 0 *)

RECURSIVE Gcd(_, _)
Gcd(a, b) == IF b = 0 THEN a ELSE Gcd(b, a % b)

Abs(i) == IF i < 0 THEN -i ELSE i

\* The number n/d (d > 0), in lowest terms.
Frac(n, d) ==
    LET g == Gcd(Abs(n), d)
    IN  [n |-> n \div g, d |-> d \div g]

\* The number i, for an integer i.
Num(i) == Frac(i, 1)

Zero == Num(0)

\* a + b
Plus(a, b) == Frac(a.n * b.d + b.n * a.d, a.d * b.d)

\* a / b, for b > 0
Over(a, b) == Frac(a.n * b.d, a.d * b.n)

\* a > 0
Positive(a) == a.n > 0

\* Number(x.toFixed(digits)) for x >= 0: the nearest multiple of 10^-digits, the
\* larger one when x lies halfway between two.
ToFixed(x, digits) ==
    LET scale == IF digits = 2 THEN 100 ELSE 10000
    IN  Frac((2 * x.n * scale + x.d) \div (2 * x.d), scale)

-----------------------------------------------------------------------------
(* Metrics *)

calculateCTR(clicks, impressions) ==
    IF Positive(impressions) THEN Over(clicks, impressions) ELSE Zero

\* Mutant: without clicks the cost itself is returned.
calculateCPCUnguarded(cost, clicks) ==
    IF Positive(clicks) THEN Over(cost, clicks) ELSE cost

calculateCPC(cost, clicks) ==
    IF Positive(clicks) THEN Over(cost, clicks) ELSE Zero

calculateACOS(cost, sales) ==
    IF Positive(sales) THEN Over(cost, sales) ELSE Zero

calculateROAS(sales, cost) ==
    IF Positive(cost) THEN Over(sales, cost) ELSE Zero

calculateCPA(cost, conversions) ==
    IF Positive(conversions) THEN Over(cost, conversions) ELSE Zero

calculateConversionRate(conversions, clicks) ==
    IF Positive(clicks) THEN Over(conversions, clicks) ELSE Zero

-----------------------------------------------------------------------------
(* Errors *)

\* new Error(message): no type, no response.
NewError(msg) ==
    [type |-> Undefined, message |-> msg, response |-> Undefined,
     upstream_code |-> Null, oid |-> 0]

\* The AxiosError axios rejects with: error.response is set when the upstream
\* answered, unset on a transport failure.
AxiosError(o) ==
    [type |-> Undefined,
     message |-> IF o.hasResponse
                 THEN <<"Request failed with status code ", ToString(o.status)>>
                 ELSE <<"Network Error">>,
     response |-> IF o.hasResponse
                  THEN Some([status |-> o.status, retryAfter |-> o.retryAfter])
                  ELSE Undefined,
     upstream_code |-> Null, oid |-> 0]

\* error.response?.status === s
StatusIs(e, s) == e.response # Undefined /\ e.response[1].status = s

\* error.response?.status >= s
StatusAtLeast(e, s) == e.response # Undefined /\ e.response[1].status >= s

\* error.response?.status < s
StatusBelow(e, s) == e.response # Undefined /\ e.response[1].status < s

-----------------------------------------------------------------------------
(* The upstream: what a request can be answered with *)

OkAnswer(d) ==
    [ok |-> TRUE, hasResponse |-> TRUE, status |-> 200, retryAfter |-> Undefined,
     code |-> Undefined, details |-> Undefined, data |-> d]

HttpFailure(s, ra, c, dt) ==
    [ok |-> FALSE, hasResponse |-> TRUE, status |-> s, retryAfter |-> ra,
     code |-> c, details |-> dt, data |-> <<>>]

TransportFailure ==
    [ok |-> FALSE, hasResponse |-> FALSE, status |-> 0, retryAfter |-> Undefined,
     code |-> Undefined, details |-> Undefined, data |-> <<>>]

ErrorStatuses == {400, 401, 403, 429, 500, 503}

FailedAnswers ==
    {HttpFailure(s, Undefined, Undefined, Undefined) : s \in ErrorStatuses}
    \cup {HttpFailure(s, Undefined, Some("INVALID_ARGUMENT"), dt) :
            s \in {400, 401, 500}, dt \in {Undefined, Some("bad date")}}
    \cup {HttpFailure(429, Some(ra), Undefined, Undefined) : ra \in {"1", "2"}}
    \cup {TransportFailure}

-----------------------------------------------------------------------------
(* Scoped HTTP client *)

Credentials ==
    [access_token : {"tokA"}, client_id : {"cidA"},
     profile_id : {Undefined, Some(""), Some("P1")}]

\* constructor: the default headers; the scope header only for a truthy profile_id.
NewClient(cred) ==
    [clientId |-> cred.client_id,
     profileId |-> cred.profile_id,
     headers |-> [Authorization |-> <<"Bearer ", cred.access_token>>,
                  ClientId |-> Some(cred.client_id),
                  Scope |-> IF Truthy(cred.profile_id) THEN cred.profile_id
                            ELSE Undefined]]

\* Mutant: the field is set, the default header is not.
setProfileFieldOnly(c, profileId) == [c EXCEPT !.profileId = Some(profileId)]

setProfile(c, profileId) ==
    [c EXCEPT !.profileId = Some(profileId), !.headers.Scope = Some(profileId)]

getProfileId(c) == c.profileId

\* Mutant: a body code is looked at before the server-error rule.
InterceptorCodeBeforeServerError(o) ==
    IF o.hasResponse
    THEN IF o.status = 401
         THEN NewError(<<"Invalid or expired access token">>)
         ELSE IF o.status = 403
         THEN NewError(<<"Access forbidden - check profile_id and permissions">>)
         ELSE IF o.status = 429
         THEN NewError(<<"Rate limit exceeded. Retry after ",
                         OrElse(o.retryAfter, "60"), " seconds">>)
         ELSE IF Truthy(o.code)
         THEN NewError(<<"Amazon API error: ", o.code[1], " - ",
                         OrElse(o.details, "Unknown error")>>)
         ELSE IF o.status >= 500
         THEN NewError(<<"Amazon API server error. Please try again later">>)
         ELSE AxiosError(o)
    ELSE AxiosError(o)

\* The response interceptor's error branch: what client.get/post reject with.
Interceptor(o) ==
    IF o.hasResponse
    THEN IF o.status = 401
         THEN NewError(<<"Invalid or expired access token">>)
         ELSE IF o.status = 403
         THEN NewError(<<"Access forbidden - check profile_id and permissions">>)
         ELSE IF o.status = 429
         THEN NewError(<<"Rate limit exceeded. Retry after ",
                         OrElse(o.retryAfter, "60"), " seconds">>)
         ELSE IF o.status >= 500
         THEN NewError(<<"Amazon API server error. Please try again later">>)
         ELSE IF Truthy(o.code)
         THEN NewError(<<"Amazon API error: ", o.code[1], " - ",
                         OrElse(o.details, "Unknown error")>>)
         ELSE AxiosError(o)
    ELSE AxiosError(o)

\* A request as the scoped client sends it: the instance's default headers.
ClientRequest(c, method, path, body) ==
    [method |-> method, path |-> path, body |-> body, scoped |-> TRUE,
     headers |-> c.headers, answer |-> Undefined]

\* axios.get(url, {headers: {Accept}}): outside the scoped client.
\* Mutant: the download carries the bearer token and the client id.
PlainRequestWithCredentials(url) ==
    [method |-> "DOWNLOAD", path |-> <<url>>, body |-> Undefined, scoped |-> FALSE,
     headers |-> [Authorization |-> <<"Bearer ", "tokA">>, ClientId |-> Some("cidA"),
                  Scope |-> Undefined],
     answer |-> Undefined]

\* axios.get(url, ...) outside the scoped client: none of its default headers.
PlainRequest(url) ==
    [method |-> "DOWNLOAD", path |-> <<url>>, body |-> Undefined, scoped |-> FALSE,
     headers |-> [Authorization |-> Undefined, ClientId |-> Undefined,
                  Scope |-> Undefined],
     answer |-> Undefined]

\* The log with the answer of its last (pending) request filled in.
Answered(log, o) == [log EXCEPT ![Len(log)].answer = Some(o)]

-----------------------------------------------------------------------------
(* Report rows and the upstream's answers to the three requests *)

\* A downloaded row: the fields the handler reads, each optional.
ReportRows ==
    {[campaignId |-> Some(7), campaignName |-> Some("Brand"),
      adGroupId |-> Undefined, adGroupName |-> Undefined,
      keywordId |-> Undefined, keywordText |-> Undefined,
      adId |-> Undefined, asin |-> Undefined,
      date |-> Some("20240101"), impressions |-> Some(100), clicks |-> Some(10),
      cost |-> Some(Num(5)), attributedSales14d |-> Some(Num(50)),
      attributedConversions14d |-> Some(2)],
     [campaignId |-> Undefined, campaignName |-> Undefined,
      adGroupId |-> Some(9), adGroupName |-> Some("Shoes"),
      keywordId |-> Some(11), keywordText |-> Some("running"),
      adId |-> Undefined, asin |-> Undefined,
      date |-> Undefined, impressions |-> Undefined, clicks |-> Some(3),
      cost |-> Some(Frac(1234, 1000)), attributedSales14d |-> Undefined,
      attributedConversions14d |-> Undefined],
     [campaignId |-> Undefined, campaignName |-> Undefined,
      adGroupId |-> Undefined, adGroupName |-> Undefined,
      keywordId |-> Undefined, keywordText |-> Undefined,
      adId |-> Some(5), asin |-> Some("B00X"),
      date |-> Some("20240102"), impressions |-> Some(200), clicks |-> Some(20),
      cost |-> Some(Num(10)), attributedSales14d |-> Some(Num(100)),
      attributedConversions14d |-> Some(4)]}

\* A downloaded value that is no row object (raw text): every field reads as
\* undefined.
RawValue ==
    [campaignId |-> Undefined, campaignName |-> Undefined,
     adGroupId |-> Undefined, adGroupName |-> Undefined,
     keywordId |-> Undefined, keywordText |-> Undefined,
     adId |-> Undefined, asin |-> Undefined,
     date |-> Undefined, impressions |-> Undefined, clicks |-> Undefined,
     cost |-> Undefined, attributedSales14d |-> Undefined,
     attributedConversions14d |-> Undefined]

RECURSIVE RowArrays(_)
\* All arrays of at most n rows.
RowArrays(n) ==
    IF n = 0 THEN {<<>>}
    ELSE LET shorter == RowArrays(n - 1)
         IN  shorter \cup {Append(a, r) : a \in {b \in shorter : Len(b) = n - 1},
                                          r \in ReportRows}

\* The body of a download: an array of rows (rows), or a single value that is
\* no array (object).
DownloadBodies ==
    {[isArray |-> TRUE, rows |-> a, object |-> Undefined] : a \in RowArrays(MaxRows)}
    \cup {[isArray |-> FALSE, rows |-> <<>>, object |-> Some(r)] :
            r \in ReportRows \cup {RawValue}}

ReportIds == {"R1", "R2"}

PostAnswers == {OkAnswer([reportId |-> Some(r)]) : r \in ReportIds} \cup FailedAnswers

\* ReportStatus payloads (status, statusDetails?, location?) of an unfinished
\* report.  Within one run the upstream sends the same one until the report ends.
PendingBodies ==
    {[status |-> Some("IN_PROGRESS"), statusDetails |-> Undefined, location |-> Undefined],
     [status |-> Some("PENDING"), statusDetails |-> Undefined, location |-> Undefined],
     [status |-> Undefined, statusDetails |-> Undefined, location |-> Undefined]}

\* ReportStatus payloads of a finished report.
FinalBodies ==
    {[status |-> Some("FAILURE"), statusDetails |-> d, location |-> Undefined] :
        d \in {Undefined, Some(""), Some("X"), Some("quota exceeded")}}
    \cup {[status |-> Some("SUCCESS"), statusDetails |-> Undefined, location |-> l] :
            l \in {Undefined, Some(""), Some("https://s3/L")}}

GetAnswers(pending) ==
    {OkAnswer(pending)} \cup {OkAnswer(b) : b \in FinalBodies} \cup FailedAnswers

DownloadAnswers == {OkAnswer(b) : b \in DownloadBodies} \cup FailedAnswers

-----------------------------------------------------------------------------
(* get_reports: arguments *)

DateRanges ==
    {Undefined}
    \cup {Some([start_date |-> s, end_date |-> e]) :
            s \in {Undefined, Some("20240101")}, e \in {Undefined, Some("20240131")}}

UserCredentials ==
    {Undefined} \cup {Some([profile_id |-> p]) : p \in {Undefined, Some(""), Some("P2")}}

ReportArgs ==
    [report_type : {Undefined, Some("keywords")},
     campaign_type : {Undefined},
     date_range : DateRanges,
     metrics : {Undefined},
     filters : {Undefined},
     time_unit : {Undefined},
     user_credentials : UserCredentials]

-----------------------------------------------------------------------------
(* handleGetReports: the synchronous pieces *)

PollMaxAttempts == 30
PollIntervalMs == 2000

\* throw {type: 'VALIDATION', message}
ValidationError(msg) ==
    [type |-> Some("VALIDATION"), message |-> msg, response |-> Undefined,
     upstream_code |-> Undefined, oid |-> 0]

\* Mutant: the caller's profile is bound only to a client that has none.
BoundClientKeepsOwn(c, a) ==
    IF /\ a.user_credentials # Undefined /\ Truthy(a.user_credentials[1].profile_id)
       /\ ~Truthy(c.profileId)
    THEN setProfile(c, a.user_credentials[1].profile_id[1])
    ELSE c

\* if (user_credentials?.profile_id) client.setProfile(...)
BoundClient(c, a) ==
    IF a.user_credentials # Undefined /\ Truthy(a.user_credentials[1].profile_id)
    THEN setProfile(c, a.user_credentials[1].profile_id[1])
    ELSE c

\* !(!date_range || !date_range.start_date || !date_range.end_date)
DateRangeGiven(a) ==
    /\ a.date_range # Undefined
    /\ Truthy(a.date_range[1].start_date)
    /\ Truthy(a.date_range[1].end_date)

\* Mutant: the catch block wraps every error, VALIDATION included.
HandlerCatchAlwaysWraps(e) ==
    [type |-> Some("UPSTREAM"), message |-> e.message, response |-> Undefined,
     upstream_code |-> IF e.response # Undefined /\ e.response[1].status # 0
                       THEN Some(e.response[1].status) ELSE Null,
     oid |-> 0]

\* The catch block: a VALIDATION error is rethrown as it is, anything else is
\* wrapped as UPSTREAM with error.response?.status || null.
HandlerCatch(e) ==
    IF e.type = Some("VALIDATION")
    THEN e
    ELSE [type |-> Some("UPSTREAM"), message |-> e.message, response |-> Undefined,
          upstream_code |-> IF e.response # Undefined /\ e.response[1].status # 0
                            THEN Some(e.response[1].status) ELSE Null,
          oid |-> 0]

DefaultMetrics ==
    <<"impressions", "clicks", "cost", "attributedSales14d", "attributedConversions14d">>

\* The ReportRequest the handler builds from its arguments.
ReportRequest(a) ==
    [reportType |-> OrElse(a.report_type, "campaigns"),
     campaignType |-> OrElse(a.campaign_type, "sp"),
     startDate |-> a.date_range[1].start_date[1],
     endDate |-> a.date_range[1].end_date[1],
     metrics |-> IF a.metrics # Undefined THEN a.metrics[1] ELSE DefaultMetrics,
     timeUnit |-> OrElse(a.time_unit, "SUMMARY"),
     filters |-> a.filters]

\* row.x || 0 for an optional number.
NumberOrZero(o) == IF o # Undefined /\ o[1] # 0 THEN o[1] ELSE 0

\* a || b || c || d over optional numbers: the first truthy one, else undefined.
FirstTruthyNumber(list) ==
    LET hits == {i \in 1..Len(list) : list[i] # Undefined /\ list[i][1] # 0}
    IN  IF hits = {} THEN Undefined
        ELSE list[CHOOSE i \in hits : \A j \in hits : i <= j]

\* a || b || c || d || null over optional strings.
FirstTruthyString(list) ==
    LET hits == {i \in 1..Len(list) : Truthy(list[i])}
    IN  IF hits = {} THEN Null
        ELSE list[CHOOSE i \in hits : \A j \in hits : i <= j]

\* Mutant: the keyword id is looked at first.
EntityIdKeywordFirst(row) ==
    LET id == FirstTruthyNumber(<<row.keywordId, row.campaignId, row.adGroupId, row.adId>>)
    IN  IF id = Undefined THEN Null ELSE Some(ToString(id[1]))

\* (a || b || c || d)?.toString() || null
EntityId(row) ==
    LET id == FirstTruthyNumber(<<row.campaignId, row.adGroupId, row.keywordId, row.adId>>)
    IN  IF id = Undefined THEN Null ELSE Some(ToString(id[1]))

\* row.x || 0 for an optional amount.
AmountOrZero(o) == IF o # Undefined THEN o[1] ELSE Zero

\* reportData.map(row => ...): one normalized row.
ProcessRow(row) ==
    LET clicks == NumberOrZero(row.clicks)
        impressions == NumberOrZero(row.impressions)
        cost == AmountOrZero(row.cost)
        sales == AmountOrZero(row.attributedSales14d)
        conversions == NumberOrZero(row.attributedConversions14d)
    IN  [entity_id |-> EntityId(row),
         entity_name |-> FirstTruthyString(<<row.campaignName, row.adGroupName,
                                             row.keywordText, row.asin>>),
         date |-> IF Truthy(row.date) THEN row.date ELSE Null,
         impressions |-> impressions,
         clicks |-> clicks,
         cost |-> ToFixed(cost, 2),
         sales |-> ToFixed(sales, 2),
         orders |-> conversions,
         ctr |-> ToFixed(calculateCTR(Num(clicks), Num(impressions)), 4),
         cpc |-> ToFixed(calculateCPC(cost, Num(clicks)), 2),
         acos |-> ToFixed(calculateACOS(cost, sales), 4),
         roas |-> ToFixed(calculateROAS(sales, cost), 2),
         conversions |-> conversions]

ProcessRows(rows) == [i \in 1..Len(rows) |-> ProcessRow(rows[i])]

RECURSIVE SumField(_, _)
\* processedData.reduce((sum, r) => sum + r.f, 0) over a counter f
SumField(rows, f) ==
    IF Len(rows) = 0 THEN 0 ELSE rows[1][f] + SumField(Tail(rows), f)

RECURSIVE SumAmount(_, _)
\* processedData.reduce((sum, r) => sum + r.f, 0) over an amount f
SumAmount(rows, f) ==
    IF Len(rows) = 0 THEN Zero ELSE Plus(rows[1][f], SumAmount(Tail(rows), f))

\* The mean of the rows' values of the ratio f.
MeanOfRatios(rows, f) ==
    IF Len(rows) = 0 THEN Zero
    ELSE Over(SumAmount(rows, f), Num(Len(rows)))

\* Mutant: the summary's ratios are the means of the per-row ratios.
SummaryOfRowRatios(processedData) ==
    [total_impressions |-> SumField(processedData, "impressions"),
     total_clicks |-> SumField(processedData, "clicks"),
     total_cost |-> ToFixed(SumAmount(processedData, "cost"), 2),
     total_sales |-> ToFixed(SumAmount(processedData, "sales"), 2),
     total_orders |-> SumField(processedData, "orders"),
     avg_ctr |-> ToFixed(MeanOfRatios(processedData, "ctr"), 4),
     avg_cpc |-> ToFixed(MeanOfRatios(processedData, "cpc"), 2),
     overall_acos |-> ToFixed(MeanOfRatios(processedData, "acos"), 4),
     overall_roas |-> ToFixed(MeanOfRatios(processedData, "roas"), 2)]

\* const summary = {...}, then the four ratios from its totals.
Summary(processedData) ==
    LET total_impressions == SumField(processedData, "impressions")
        total_clicks == SumField(processedData, "clicks")
        total_cost == ToFixed(SumAmount(processedData, "cost"), 2)
        total_sales == ToFixed(SumAmount(processedData, "sales"), 2)
    IN  [total_impressions |-> total_impressions,
         total_clicks |-> total_clicks,
         total_cost |-> total_cost,
         total_sales |-> total_sales,
         total_orders |-> SumField(processedData, "orders"),
         avg_ctr |-> ToFixed(calculateCTR(Num(total_clicks), Num(total_impressions)), 4),
         avg_cpc |-> ToFixed(calculateCPC(total_cost, Num(total_clicks)), 2),
         overall_acos |-> ToFixed(calculateACOS(total_cost, total_sales), 4),
         overall_roas |-> ToFixed(calculateROAS(total_sales, total_cost), 2)]

\* The value the handler returns.
ReportResult(c, a, reportData) ==
    LET processedData == ProcessRows(reportData)
    IN  [report_data |-> processedData,
         summary |-> Summary(processedData),
         date_range |-> [start_date |-> a.date_range[1].start_date[1],
                         end_date |-> a.date_range[1].end_date[1]],
         profile_id |-> getProfileId(c),
         currency |-> "USD"]

-----------------------------------------------------------------------------
(* generateReport, pollReportStatus, downloadReportData: the synchronous pieces *)

buildReportEndpoint(campaignType, reportType) ==
    <<"/v2/", campaignType, "/", reportType, "/report">>

buildDefaultMetrics == Join(DefaultMetrics)

\* Mutant: the report is requested for the end date.
ReportBodyForEndDate(req) ==
    [reportDate |-> req.endDate,
     metrics |-> IF Join(req.metrics) # <<>> /\ Join(req.metrics) # <<"">>
                 THEN Join(req.metrics) ELSE buildDefaultMetrics,
     timeUnit |-> IF req.timeUnit # "" THEN Some(req.timeUnit) ELSE Undefined,
     segment |-> IF req.filters # Undefined /\ Truthy(req.filters[1].state)
                 THEN req.filters[1].state ELSE Undefined,
     campaignIdFilter |->
         IF /\ req.filters # Undefined
            /\ req.filters[1].campaign_id # Undefined
            /\ Len(req.filters[1].campaign_id[1]) > 0
         THEN Some(Join(req.filters[1].campaign_id[1])) ELSE Undefined]

\* const reportBody = {reportDate, metrics} plus the optional parameters.
ReportBody(req) ==
    [reportDate |-> req.startDate,
     metrics |-> IF Join(req.metrics) # <<>> /\ Join(req.metrics) # <<"">>
                 THEN Join(req.metrics) ELSE buildDefaultMetrics,
     timeUnit |-> IF req.timeUnit # "" THEN Some(req.timeUnit) ELSE Undefined,
     segment |-> IF req.filters # Undefined /\ Truthy(req.filters[1].state)
                 THEN req.filters[1].state ELSE Undefined,
     campaignIdFilter |->
         IF /\ req.filters # Undefined
            /\ req.filters[1].campaign_id # Undefined
            /\ Len(req.filters[1].campaign_id[1]) > 0
         THEN Some(Join(req.filters[1].campaign_id[1])) ELSE Undefined]

\* Mutant: every status GET asks for the first report id.
StatusPathFirstReport(rid) == <<"/v2/reports/", "R1">>

\* `/v2/reports/${reportId}`
StatusPath(rid) == <<"/v2/reports/", OrElse(rid, "undefined")>>

\* status.status === 'SUCCESS'
IsSuccess(st) == st.status = Some("SUCCESS")

\* Mutant: only IN_PROGRESS counts as unfinished; anything else but SUCCESS fails.
IsFailureUnlessInProgress(st) == st.status \notin {Some("SUCCESS"), Some("IN_PROGRESS")}

\* status.status === 'FAILURE'
IsFailure(st) == st.status = Some("FAILURE")

\* Mutant: statusDetails is left out of the message.
FailureMessageNoDetails(st) == <<"Report generation failed: ", "Unknown error">>

\* `Report generation failed: ${status.statusDetails || 'Unknown error'}`
FailureMessage(st) ==
    <<"Report generation failed: ", OrElse(st.statusDetails, "Unknown error")>>

\* Mutant: the timeout is reported with the failure text.
TimeoutMessageAsFailure(n) == <<"Report generation failed: ", "timeout">>

\* `Report generation timeout after ${maxAttempts} attempts`
TimeoutMessage(n) == <<"Report generation timeout after ", ToString(n), " attempts">>

\* Mutant: the loop is left one pass early.
LoopContinuesOffByOne(att, n) == att + 1 < n

\* while (attempts < maxAttempts)
LoopContinues(att, n) == att < n

\* Mutant: the loop sleeps after every attempt, the last one too.
SleepsAfterEveryPoll(att, n) == TRUE

\* if (attempts < maxAttempts) await sleep(pollIntervalMs), after attempts++
SleepsBeforeNextPoll(att, n) == att < n

\* `Failed to download report: ${error.message}`
DownloadError(o) == NewError(<<"Failed to download report: ">> \o AxiosError(o).message)

\* Mutant: only an absent location is refused, an empty one is downloaded.
HasLocationOrEmpty(st) == st.location # Undefined

\* !(!status.location)
HasLocation(st) == Truthy(st.location)

\* Mutant: the download is returned as it is.
WrapRowsArrayOnly(body) == body.rows

\* Array.isArray(reportData) ? reportData : [reportData]
WrapRows(body) == IF body.isArray THEN body.rows ELSE <<body.object[1]>>

-----------------------------------------------------------------------------
(* The report workflow, one action per segment between two awaits *)

\* The handler ends by raising e to its caller.
Raise(e) == pc' = "failed" /\ thrown' = Some(e)

\* The head of pollReportStatus's while loop: the next status GET is issued, or
\* the loop is left and the timeout error goes through the handler's catch block.
PollLoopHead(log, att, rid, n) ==
    IF LoopContinues(att, n)
    THEN /\ requests' = Append(log, ClientRequest(client, "GET", StatusPath(rid), Undefined))
         /\ pc' = "poll"
         /\ thrown' = thrown
    ELSE /\ requests' = log
         /\ Raise(HandlerCatch(NewError(TimeoutMessage(n))))

\* handleGetReports up to generateReport's await client.post(...).
HandleGetReports ==
    /\ pc = "start"
    /\ LET c == BoundClient(client, args)
       IN  /\ client' = c
           /\ IF ~Truthy(getProfileId(c))
              THEN /\ Raise(HandlerCatch(ValidationError(
                            <<"profile_id is required in user_credentials">>)))
                   /\ UNCHANGED requests
              ELSE IF ~DateRangeGiven(args)
              THEN /\ Raise(HandlerCatch(ValidationError(
                            <<"date_range with start_date and end_date is required">>)))
                   /\ UNCHANGED requests
              ELSE LET req == ReportRequest(args)
                   IN  /\ requests' = Append(requests,
                              ClientRequest(c, "POST",
                                  buildReportEndpoint(req.campaignType, req.reportType),
                                  Some(ReportBody(req))))
                       /\ pc' = "post"
                       /\ UNCHANGED thrown
    /\ UNCHANGED <<args, reportId, maxAttempts, pollIntervalMs, attempts, sleeps,
                   returned, pendingBody, retry, sideVars>>

\* Mutant: a failed submission is sent again.
PostAnsweredResubmits ==
    /\ pc = "post"
    /\ \E o \in PostAnswers :
          LET log == Answered(requests, o)
          IN  IF ~o.ok
              THEN /\ requests' = IF Len(log) < 2
                                  THEN Append(log, [log[Len(log)] EXCEPT !.answer = Undefined])
                                  ELSE log
                   /\ IF Len(log) < 2
                      THEN pc' = "post" /\ thrown' = thrown
                      ELSE Raise(HandlerCatch(Interceptor(o)))
                   /\ UNCHANGED <<reportId, maxAttempts, pollIntervalMs, attempts>>
              ELSE /\ reportId' = o.data.reportId
                   /\ maxAttempts' = PollMaxAttempts
                   /\ pollIntervalMs' = PollIntervalMs
                   /\ attempts' = 0
                   /\ PollLoopHead(log, 0, o.data.reportId, PollMaxAttempts)
    /\ UNCHANGED <<args, client, sleeps, returned, pendingBody, retry, sideVars>>

\* The submission is answered: generateReport up to the first status GET.
PostAnswered ==
    /\ pc = "post"
    /\ \E o \in PostAnswers :
          LET log == Answered(requests, o)
          IN  IF ~o.ok
              THEN /\ requests' = log
                   /\ Raise(HandlerCatch(Interceptor(o)))
                   /\ UNCHANGED <<reportId, maxAttempts, pollIntervalMs, attempts>>
              ELSE /\ reportId' = o.data.reportId
                   /\ maxAttempts' = PollMaxAttempts
                   /\ pollIntervalMs' = PollIntervalMs
                   /\ attempts' = 0
                   /\ PollLoopHead(log, 0, o.data.reportId, PollMaxAttempts)
    /\ UNCHANGED <<args, client, sleeps, returned, pendingBody, retry, sideVars>>

\* Mutant: a status GET that fails is taken for a report still in progress.
PollAnsweredSwallows ==
    /\ pc = "poll"
    /\ \E o \in GetAnswers(pendingBody) :
          LET log == Answered(requests, o)
              st == o.data
          IN  IF o.ok /\ IsSuccess(st)
              THEN /\ IF ~HasLocation(st)
                      THEN /\ requests' = log
                           /\ Raise(HandlerCatch(NewError(
                                  <<"Report completed but no download URL provided">>)))
                      ELSE /\ requests' = Append(log, PlainRequest(st.location[1]))
                           /\ pc' = "download"
                           /\ UNCHANGED thrown
                   /\ UNCHANGED <<attempts, sleeps>>
              ELSE IF o.ok /\ IsFailure(st)
              THEN /\ requests' = log
                   /\ Raise(HandlerCatch(NewError(FailureMessage(st))))
                   /\ UNCHANGED <<attempts, sleeps>>
              ELSE /\ attempts' = attempts + 1
                   /\ IF SleepsBeforeNextPoll(attempts + 1, maxAttempts)
                      THEN /\ sleeps' = Append(sleeps, pollIntervalMs)
                           /\ requests' = log
                           /\ pc' = "sleep"
                           /\ UNCHANGED thrown
                      ELSE /\ sleeps' = sleeps
                           /\ PollLoopHead(log, attempts + 1, reportId, maxAttempts)
    /\ UNCHANGED <<args, client, reportId, maxAttempts, pollIntervalMs, returned, pendingBody, retry, sideVars>>

\* A status GET is answered: the loop body, then generateReport up to the download
\* when the status is SUCCESS.
PollAnswered ==
    /\ pc = "poll"
    /\ \E o \in GetAnswers(pendingBody) :
          LET log == Answered(requests, o)
              st == o.data
          IN  IF ~o.ok
              THEN /\ requests' = log
                   /\ Raise(HandlerCatch(Interceptor(o)))
                   /\ UNCHANGED <<attempts, sleeps>>
              ELSE IF IsSuccess(st)
              THEN /\ IF ~HasLocation(st)
                      THEN /\ requests' = log
                           /\ Raise(HandlerCatch(NewError(
                                  <<"Report completed but no download URL provided">>)))
                      ELSE /\ requests' = Append(log, PlainRequest(st.location[1]))
                           /\ pc' = "download"
                           /\ UNCHANGED thrown
                   /\ UNCHANGED <<attempts, sleeps>>
              ELSE IF IsFailure(st)
              THEN /\ requests' = log
                   /\ Raise(HandlerCatch(NewError(FailureMessage(st))))
                   /\ UNCHANGED <<attempts, sleeps>>
              ELSE /\ attempts' = attempts + 1
                   /\ IF SleepsBeforeNextPoll(attempts + 1, maxAttempts)
                      THEN /\ sleeps' = Append(sleeps, pollIntervalMs)
                           /\ requests' = log
                           /\ pc' = "sleep"
                           /\ UNCHANGED thrown
                      ELSE /\ sleeps' = sleeps
                           /\ PollLoopHead(log, attempts + 1, reportId, maxAttempts)
    /\ UNCHANGED <<args, client, reportId, maxAttempts, pollIntervalMs, returned, pendingBody, retry, sideVars>>

\* The poll interval has passed: back to the loop head.
PollSleepDone ==
    /\ pc = "sleep"
    /\ PollLoopHead(requests, attempts, reportId, maxAttempts)
    /\ UNCHANGED <<args, client, reportId, maxAttempts, pollIntervalMs, attempts,
                   sleeps, returned, pendingBody, retry, sideVars>>

\* Mutant: a failed download is taken for an empty report.
DownloadAnsweredSwallows ==
    /\ pc = "download"
    /\ \E o \in DownloadAnswers :
          /\ requests' = Answered(requests, o)
          /\ returned' = Some(ReportResult(client, args,
                                IF o.ok THEN WrapRows(o.data) ELSE <<>>))
          /\ pc' = "done"
          /\ UNCHANGED thrown
    /\ UNCHANGED <<args, client, reportId, maxAttempts, pollIntervalMs, attempts,
                   sleeps, pendingBody, retry, sideVars>>

\* The download is answered: the rest of generateReport and of the handler.
DownloadAnswered ==
    /\ pc = "download"
    /\ \E o \in DownloadAnswers :
          /\ requests' = Answered(requests, o)
          /\ IF ~o.ok
             THEN /\ Raise(HandlerCatch(DownloadError(o)))
                  /\ UNCHANGED returned
             ELSE /\ returned' = Some(ReportResult(client, args, WrapRows(o.data)))
                  /\ pc' = "done"
                  /\ UNCHANGED thrown
    /\ UNCHANGED <<args, client, reportId, maxAttempts, pollIntervalMs, attempts,
                   sleeps, pendingBody, retry, sideVars>>

-----------------------------------------------------------------------------
(* Retry executors: retryWithBackoff and retryRateLimit *)

DefaultMaxAttempts == 3
DefaultInitialDelayMs == 1000
DefaultMaxDelayMs == 30000
DefaultBackoffMultiplier == 2

RECURSIVE Pow(_, _)
\* Math.pow(b, e) for a natural e.
Pow(b, e) == IF e = 0 THEN 1 ELSE b * Pow(b, e - 1)

\* Math.min(a, b)
Min(a, b) == IF a <= b THEN a ELSE b

\* parseInt on the retry-after values the upstream sends.
ParseInt(s) == IF s = "1" THEN 1 ELSE IF s = "2" THEN 2 ELSE 60

\* What the wrapped operation can end with: a value, or a failed request made
\* through the scoped client (the interceptor's error) or with plain axios (the
\* AxiosError itself).
RetryFailures ==
    {HttpFailure(s, Undefined, Undefined, Undefined) : s \in {401, 403, 404, 429, 500}}
    \cup {HttpFailure(429, Some(ra), Undefined, Undefined) : ra \in {"1", "2"}}
    \cup {TransportFailure}

FnOutcomes ==
    {[ok |-> TRUE, value |-> v, viaClient |-> TRUE, upstream |-> OkAnswer(<<>>)] :
        v \in {"v1", "v2"}}
    \cup {[ok |-> FALSE, value |-> "", viaClient |-> b, upstream |-> o] :
            b \in BOOLEAN, o \in RetryFailures}

\* The error object the n-th invocation of the operation throws.
FnError(out, n) ==
    [(IF out.viaClient THEN Interceptor(out.upstream) ELSE AxiosError(out.upstream))
        EXCEPT !.oid = n]

\* Mutant: every status from 400 up is thrown at once, 5xx included.
BackoffNoRetryAnyError(e) ==
    \/ StatusIs(e, 401) \/ StatusIs(e, 403)
    \/ StatusAtLeast(e, 400)

\* retryWithBackoff: the two early throws of the catch block (401/403, then 4xx).
BackoffNoRetry(e) ==
    \/ StatusIs(e, 401) \/ StatusIs(e, 403)
    \/ (StatusAtLeast(e, 400) /\ StatusBelow(e, 500))

\* Mutant: no attempt is taken for the last one.
LastAttemptNever(attempt, n) == FALSE

\* attempt === maxAttempts - 1
LastAttempt(attempt, n) == attempt = n - 1

\* Mutant: the delay is not capped.
BackoffDelayUncapped(r, attempt) == r.initialDelayMs * Pow(r.backoffMultiplier, attempt)

\* Math.min(initialDelayMs * Math.pow(backoffMultiplier, attempt), maxDelayMs)
BackoffDelay(r, attempt) ==
    Min(r.initialDelayMs * Pow(r.backoffMultiplier, attempt), r.maxDelayMs)

\* Mutant: server errors are retried as well.
NotRateLimitNorServerError(e) == ~StatusIs(e, 429) /\ ~StatusAtLeast(e, 500)

\* retryRateLimit: error.response?.status !== 429
NotRateLimit(e) == ~StatusIs(e, 429)

\* Mutant: the retry-after seconds are used as milliseconds.
RateLimitDelaySecondsAsMs(e, attempt) ==
    LET retryAfter == e.response[1].retryAfter
    IN  IF Truthy(retryAfter) THEN ParseInt(retryAfter[1])
        ELSE 1000 * Pow(2, attempt)

\* retryAfter ? parseInt(retryAfter) * 1000 : 1000 * Math.pow(2, attempt)
RateLimitDelay(e, attempt) ==
    LET retryAfter == e.response[1].retryAfter
    IN  IF Truthy(retryAfter) THEN ParseInt(retryAfter[1]) * 1000
        ELSE 1000 * Pow(2, attempt)

\* Mutant: the first pass enters the loop body whatever the ceiling is.
RetryLoopHeadBodyFirst(r, attempt) ==
    IF attempt < r.maxAttempts \/ attempt = 0
    THEN [r EXCEPT !.pc = "fn", !.attempt = attempt, !.invocations = @ + 1]
    ELSE [r EXCEPT !.pc = "thrown", !.attempt = attempt, !.error = r.lastError]

\* The for loop's head (both executors): the operation is invoked again, or the
\* loop is left and lastError is thrown.
RetryLoopHead(r, attempt) ==
    IF attempt < r.maxAttempts
    THEN [r EXCEPT !.pc = "fn", !.attempt = attempt, !.invocations = @ + 1]
    ELSE [r EXCEPT !.pc = "thrown", !.attempt = attempt, !.error = r.lastError]

\* retryWithBackoff is called: the first pass through the loop head.
BackoffStart ==
    /\ retry.pc = "start" /\ retry.policy = "backoff"
    /\ retry' = RetryLoopHead(retry, 0)
    /\ UNCHANGED <<wfVars, sideVars>>

\* retryWithBackoff: the awaited operation settles.
BackoffSettled ==
    /\ retry.pc = "fn" /\ retry.policy = "backoff"
    /\ \E out \in FnOutcomes :
          LET r == [retry EXCEPT !.calls = Append(@, out)]
              e == FnError(out, retry.invocations)
          IN  IF out.ok
              THEN retry' = [r EXCEPT !.pc = "returned", !.value = Some(out.value)]
              ELSE IF BackoffNoRetry(e) \/ LastAttempt(retry.attempt, retry.maxAttempts)
              THEN retry' = [r EXCEPT !.pc = "thrown", !.lastError = Some(e),
                                      !.error = Some(e)]
              ELSE retry' = [r EXCEPT !.pc = "sleep", !.lastError = Some(e),
                                      !.sleeps = Append(@, BackoffDelay(retry, retry.attempt))]
    /\ UNCHANGED <<wfVars, sideVars>>

\* retryWithBackoff: the sleep ends, attempt++ and the loop head.
BackoffSleepDone ==
    /\ retry.pc = "sleep" /\ retry.policy = "backoff"
    /\ retry' = RetryLoopHead(retry, retry.attempt + 1)
    /\ UNCHANGED <<wfVars, sideVars>>

\* retryRateLimit is called: the first pass through the loop head.
RateLimitStart ==
    /\ retry.pc = "start" /\ retry.policy = "ratelimit"
    /\ retry' = RetryLoopHead(retry, 0)
    /\ UNCHANGED <<wfVars, sideVars>>

\* retryRateLimit: the awaited operation settles.
RateLimitSettled ==
    /\ retry.pc = "fn" /\ retry.policy = "ratelimit"
    /\ \E out \in FnOutcomes :
          LET r == [retry EXCEPT !.calls = Append(@, out)]
              e == FnError(out, retry.invocations)
          IN  IF out.ok
              THEN retry' = [r EXCEPT !.pc = "returned", !.value = Some(out.value)]
              ELSE IF NotRateLimit(e) \/ LastAttempt(retry.attempt, retry.maxAttempts)
              THEN retry' = [r EXCEPT !.pc = "thrown", !.lastError = Some(e),
                                      !.error = Some(e)]
              ELSE retry' = [r EXCEPT !.pc = "sleep", !.lastError = Some(e),
                                      !.sleeps = Append(@, RateLimitDelay(e, retry.attempt))]
    /\ UNCHANGED <<wfVars, sideVars>>

\* retryRateLimit: the sleep ends, attempt++ and the loop head.
RateLimitSleepDone ==
    /\ retry.pc = "sleep" /\ retry.policy = "ratelimit"
    /\ retry' = RetryLoopHead(retry, retry.attempt + 1)
    /\ UNCHANGED <<wfVars, sideVars>>

-----------------------------------------------------------------------------
(* One application of the six metric formulas *)

\* The numbers the formulas are applied to: counts, and amounts with cents.
MetricInputs == {Frac(n, d) : n \in 0..MaxAmount, d \in {1, 100}}

MetricCalls ==
    {[pc |-> "start", numerator |-> a, denominator |-> b, results |-> Undefined] :
        a \in MetricInputs, b \in MetricInputs}

\* Each formula applied to (numerator, denominator), through calculateMetrics.
ApplyMetrics ==
    /\ metric.pc = "start"
    /\ LET a == metric.numerator
           b == metric.denominator
       IN  metric' = [metric EXCEPT
                !.pc = "done",
                !.results = Some([ctr |-> calculateCTR(a, b),
                                  cpc |-> calculateCPC(a, b),
                                  acos |-> calculateACOS(a, b),
                                  roas |-> calculateROAS(a, b),
                                  cpa |-> calculateCPA(a, b),
                                  conversionRate |-> calculateConversionRate(a, b)])]
    /\ UNCHANGED <<wfVars, retry, tool, inst, parked, date, rpc, stdio>>

-----------------------------------------------------------------------------
(* handleHealthcheck and handleGetProfiles *)

\* AmazonAdsProfile objects; accountInfo is optional.
Profiles ==
    {[profileId |-> 101, countryCode |-> "US", currencyCode |-> "USD",
      timezone |-> "America/Los_Angeles",
      accountInfo |-> Some([marketplaceStringId |-> Some("ATVPDKIKX0DER"),
                            name |-> Some("Acme"), type |-> Some("vendor")])],
     [profileId |-> 202, countryCode |-> "DE", currencyCode |-> "EUR",
      timezone |-> "Europe/Berlin", accountInfo |-> Undefined]}

RECURSIVE ProfileArrays(_)
\* All arrays of at most n profiles.
ProfileArrays(n) ==
    IF n = 0 THEN {<<>>}
    ELSE LET shorter == ProfileArrays(n - 1)
         IN  shorter \cup {Append(a, p) : a \in {b \in shorter : Len(b) = n - 1},
                                          p \in Profiles}

ProfilesAnswers == {OkAnswer(a) : a \in ProfileArrays(MaxProfiles)} \cup FailedAnswers

\* Date.now() - startTime, in ms.
ResponseTimes == {0, 120}

\* fetchProfiles: client.get('/v2/profiles')
ProfilesRequest(c) == ClientRequest(c, "GET", <<"/v2/profiles">>, Undefined)

\* handleHealthcheck's catch block: the status for the error caught.
HealthcheckStatus(e) ==
    IF StatusIs(e, 401) \/ StatusIs(e, 403) THEN "unhealthy"
    ELSE IF StatusAtLeast(e, 500) THEN "degraded"
    ELSE "unhealthy"

\* The object handleHealthcheck returns.
HealthcheckResult(status, apiConnectivity, profilesAccessible, profileCount, ms) ==
    [status |-> status, timestamp |-> "now", version |-> "1.0.0",
     api_connectivity |-> apiConnectivity, api_response_time_ms |-> ms,
     profiles_accessible |-> profilesAccessible, profile_count |-> profileCount]

\* profiles.map(profile => ...): one profile of the get_profiles result.
ProfileEntry(profile) ==
    LET info == profile.accountInfo
    IN  [profile_id |-> ToString(profile.profileId),
         country_code |-> profile.countryCode,
         currency_code |-> profile.currencyCode,
         timezone |-> profile.timezone,
         marketplace_id |-> IF info # Undefined /\ Truthy(info[1].marketplaceStringId)
                            THEN info[1].marketplaceStringId ELSE Null,
         name |-> IF info # Undefined /\ Truthy(info[1].name)
                  THEN <<info[1].name[1]>>
                  ELSE <<"Profile ", ToString(profile.profileId)>>,
         type |-> IF info # Undefined THEN OrElse(info[1].type, "seller") ELSE "seller"]

\* The object handleGetProfiles returns.
ProfilesResult(profiles) ==
    [profiles |-> [i \in 1..Len(profiles) |-> ProfileEntry(profiles[i])],
     total_count |-> Len(profiles)]

\* handleGetProfiles' catch block: every error is wrapped as UPSTREAM.
GetProfilesCatch(e) ==
    [type |-> Some("UPSTREAM"), message |-> e.message, response |-> Undefined,
     upstream_code |-> IF e.response # Undefined /\ e.response[1].status # 0
                       THEN Some(e.response[1].status) ELSE Null,
     oid |-> 0]

\* handleHealthcheck up to fetchProfiles' await client.get(...).
HandleHealthcheck ==
    /\ tool.pc = "start" /\ tool.name = "healthcheck"
    /\ tool' = [tool EXCEPT !.pc = "profiles",
                            !.requests = Append(@, ProfilesRequest(tool.client))]
    /\ UNCHANGED <<wfVars, retry, metric, inst, parked, date, rpc, stdio>>

\* Mutant: the error caught is raised to the caller.
HealthcheckAnsweredRaises ==
    /\ tool.pc = "profiles" /\ tool.name = "healthcheck"
    /\ \E o \in ProfilesAnswers, ms \in ResponseTimes :
          LET t == [tool EXCEPT !.requests = Answered(@, o)]
          IN  IF o.ok
              THEN tool' = [t EXCEPT !.pc = "done",
                                     !.returned = Some(HealthcheckResult(
                                         "healthy", TRUE, TRUE, Len(o.data), ms))]
              ELSE tool' = [t EXCEPT !.pc = "failed",
                                     !.thrown = Some(GetProfilesCatch(Interceptor(o)))]
    /\ UNCHANGED <<wfVars, retry, metric, inst, parked, date, rpc, stdio>>

\* The profiles request is answered: the rest of handleHealthcheck.
HealthcheckAnswered ==
    /\ tool.pc = "profiles" /\ tool.name = "healthcheck"
    /\ \E o \in ProfilesAnswers, ms \in ResponseTimes :
          LET t == [tool EXCEPT !.requests = Answered(@, o)]
          IN  IF o.ok
              THEN tool' = [t EXCEPT !.pc = "done",
                                     !.returned = Some(HealthcheckResult(
                                         "healthy", TRUE, TRUE, Len(o.data), ms))]
              ELSE tool' = [t EXCEPT !.pc = "done",
                                     !.returned = Some(HealthcheckResult(
                                         HealthcheckStatus(Interceptor(o)),
                                         FALSE, FALSE, 0, ms))]
    /\ UNCHANGED <<wfVars, retry, metric, inst, parked, date, rpc, stdio>>

\* handleGetProfiles up to fetchProfiles' await client.get(...).
HandleGetProfiles ==
    /\ tool.pc = "start" /\ tool.name = "get_profiles"
    /\ tool' = [tool EXCEPT !.pc = "profiles",
                            !.requests = Append(@, ProfilesRequest(tool.client))]
    /\ UNCHANGED <<wfVars, retry, metric, inst, parked, date, rpc, stdio>>

\* The profiles request is answered: the rest of handleGetProfiles.
GetProfilesAnswered ==
    /\ tool.pc = "profiles" /\ tool.name = "get_profiles"
    /\ \E o \in ProfilesAnswers :
          LET t == [tool EXCEPT !.requests = Answered(@, o)]
          IN  IF o.ok
              THEN tool' = [t EXCEPT !.pc = "done",
                                     !.returned = Some(ProfilesResult(o.data))]
              ELSE tool' = [t EXCEPT !.pc = "failed",
                                     !.thrown = Some(GetProfilesCatch(Interceptor(o)))]
    /\ UNCHANGED <<wfVars, retry, metric, inst, parked, date, rpc, stdio>>

-----------------------------------------------------------------------------
(* One AmazonAdsClient instance: setProfile and the four request methods *)

ProfileArguments == {"", "P1", "P2"}

\* A call on the instance, as the log records it.
SetProfileCall(p) == [kind |-> "setProfile", profileId |-> Some(p), request |-> Undefined]
RequestCall(r) == [kind |-> "request", profileId |-> Undefined, request |-> Some(r)]

\* The instance after one of its request methods was called: the request leaves
\* with the instance's headers of that moment.
Called(i, method, path, body) ==
    [i EXCEPT !.calls = Append(@, RequestCall(ClientRequest(i.client, method, path, body)))]

\* client.setProfile(p)
SetProfile ==
    /\ inst.pc = "live"
    /\ Len(inst.calls) < MaxClientCalls
    /\ \E p \in ProfileArguments :
          inst' = [inst EXCEPT !.client = setProfile(@, p),
                               !.calls = Append(@, SetProfileCall(p))]
    /\ UNCHANGED <<wfVars, retry, metric, tool, parked, date, rpc, stdio>>

\* client.get(path)
ClientGet ==
    /\ inst.pc = "live"
    /\ Len(inst.calls) < MaxClientCalls
    /\ inst' = Called(inst, "GET", <<"/v2/profiles">>, Undefined)
    /\ UNCHANGED <<wfVars, retry, metric, tool, parked, date, rpc, stdio>>

\* client.post(path, data)
ClientPost ==
    /\ inst.pc = "live"
    /\ Len(inst.calls) < MaxClientCalls
    /\ inst' = Called(inst, "POST", <<"/v2/sp/campaigns/report">>, Some("data"))
    /\ UNCHANGED <<wfVars, retry, metric, tool, parked, date, rpc, stdio>>

\* client.put(path, data)
ClientPut ==
    /\ inst.pc = "live"
    /\ Len(inst.calls) < MaxClientCalls
    /\ inst' = Called(inst, "PUT", <<"/v2/sp/campaigns">>, Some("data"))
    /\ UNCHANGED <<wfVars, retry, metric, tool, parked, date, rpc, stdio>>

\* client.delete(path)
ClientDelete ==
    /\ inst.pc = "live"
    /\ Len(inst.calls) < MaxClientCalls
    /\ inst' = Called(inst, "DELETE", <<"/v2/sp/campaigns/7">>, Undefined)
    /\ UNCHANGED <<wfVars, retry, metric, tool, parked, date, rpc, stdio>>

-----------------------------------------------------------------------------
(* Two get_reports invocations, interleaved at their awaits *)

NotParked == [self |-> 0]

\* The credentials of invocation 1 and of invocation 2.
ConcCredentials ==
    <<[access_token |-> "tokA", client_id |-> "cidA", profile_id |-> Some("P1")],
      [access_token |-> "tokB", client_id |-> "cidB", profile_id |-> Some("P2")]>>

\* The arguments of invocation i.
ConcArgs(i) ==
    [report_type |-> Undefined, campaign_type |-> Undefined,
     date_range |-> Some([start_date |-> Some("20240101"),
                          end_date |-> Some("20240131")]),
     metrics |-> Undefined, filters |-> Undefined, time_unit |-> Undefined,
     user_credentials |-> Some([profile_id |-> ConcCredentials[i].profile_id])]

\* Invocation i when the call-tool handler has built its client and is about to
\* call handleGetReports.
Fresh(i) ==
    [args |-> ConcArgs(i), client |-> NewClient(ConcCredentials[i]), pc |-> "start",
     reportId |-> Undefined, maxAttempts |-> 0, pollIntervalMs |-> 0, attempts |-> 0,
     requests |-> <<>>, sleeps |-> <<>>, thrown |-> Undefined, returned |-> Undefined]

\* The locals of the running invocation.
Running ==
    [args |-> args, client |-> client, pc |-> pc, reportId |-> reportId,
     maxAttempts |-> maxAttempts, pollIntervalMs |-> pollIntervalMs,
     attempts |-> attempts, requests |-> requests, sleeps |-> sleeps,
     thrown |-> thrown, returned |-> returned]

\* Mutant: one client instance serves both invocations.
SwitchSharedClient ==
    /\ parked.self # 0
    /\ parked.state.pc \notin {"done", "failed"}
    /\ args' = parked.state.args
    /\ client' = client
    /\ pc' = parked.state.pc
    /\ reportId' = parked.state.reportId
    /\ maxAttempts' = parked.state.maxAttempts
    /\ pollIntervalMs' = parked.state.pollIntervalMs
    /\ attempts' = parked.state.attempts
    /\ requests' = parked.state.requests
    /\ sleeps' = parked.state.sleeps
    /\ thrown' = parked.state.thrown
    /\ returned' = parked.state.returned
    /\ parked' = [self |-> parked.other, other |-> parked.self, state |-> Running]
    /\ UNCHANGED <<pendingBody, retry, metric, tool, inst, date, rpc, stdio>>

\* The running invocation stays suspended at its await and the other one, whose
\* awaited answer (or timer) is due, runs: each has its own args, client and
\* locals.
Switch ==
    /\ parked.self # 0
    /\ parked.state.pc \notin {"done", "failed"}
    /\ args' = parked.state.args
    /\ client' = parked.state.client
    /\ pc' = parked.state.pc
    /\ reportId' = parked.state.reportId
    /\ maxAttempts' = parked.state.maxAttempts
    /\ pollIntervalMs' = parked.state.pollIntervalMs
    /\ attempts' = parked.state.attempts
    /\ requests' = parked.state.requests
    /\ sleeps' = parked.state.sleeps
    /\ thrown' = parked.state.thrown
    /\ returned' = parked.state.returned
    /\ parked' = [self |-> parked.other, other |-> parked.self, state |-> Running]
    /\ UNCHANGED <<pendingBody, retry, metric, tool, inst, date, rpc, stdio>>

\* The answers the upstream gives while two invocations are interleaved: one of
\* each class, and a report is unfinished for at most MaxInterleavedPolls polls.
OfferedTo(r) ==
    \/ r.answer = Undefined
    \/ LET o == r.answer[1]
       IN  IF ~o.ok THEN o = HttpFailure(401, Undefined, Undefined, Undefined)
           ELSE IF r.method = "POST" THEN TRUE
           ELSE IF r.method = "GET"
           THEN o.data \in {pendingBody,
                            [status |-> Some("SUCCESS"), statusDetails |-> Undefined,
                             location |-> Some("https://s3/L")],
                            [status |-> Some("FAILURE"), statusDetails |-> Some("X"),
                             location |-> Undefined]}
           ELSE o.data.isArray /\ Len(o.data.rows) = 1 /\ o.data.rows[1].campaignId = Some(7)

OnlyOffered ==
    /\ \A i \in 1..Len(requests) : OfferedTo(requests[i])
    /\ Cardinality({i \in 1..Len(requests) :
                        /\ requests[i].method = "GET"
                        /\ requests[i].answer = Some(OkAnswer(pendingBody))})
         <= MaxInterleavedPolls

\* The answered segments of the running invocation.
ConcPostAnswered == PostAnswered /\ OnlyOffered'
ConcPollAnswered == PollAnswered /\ OnlyOffered'
ConcDownloadAnswered == DownloadAnswered /\ OnlyOffered'

-----------------------------------------------------------------------------
(* pollReportStatus called on its own, with any attempt ceiling and interval *)

\* The default values of the parameters maxAttempts and pollIntervalMs.
DefaultPollMaxAttempts == 30
DefaultPollIntervalMs == 2000

\* A parameter with a default value: the default when the argument is undefined.
DefaultParam(o, d) == IF o = Undefined THEN d ELSE o[1]

\* The calls: a report id, and the two optional parameters.
PollCalls ==
    [reportId : ReportIds,
     maxAttempts : {Undefined} \cup {Some(n) : n \in -1..MaxPollCeiling},
     pollIntervalMs : {Undefined, Some(0), Some(500)}]

\* The loop head of pollReportStatus: the next status GET, or the timeout error.
PollStatusLoopHead(log, att, rid, n) ==
    IF LoopContinues(att, n)
    THEN /\ requests' = Append(log, ClientRequest(client, "GET", StatusPath(rid), Undefined))
         /\ pc' = "pollStatus"
         /\ thrown' = thrown
    ELSE /\ requests' = log
         /\ pc' = "pollThrown"
         /\ thrown' = Some(NewError(TimeoutMessage(n)))

\* pollReportStatus up to its first await client.get(...).
PollReportStatus ==
    /\ pc = "pollCall"
    /\ reportId' = Some(args.reportId)
    /\ maxAttempts' = DefaultParam(args.maxAttempts, DefaultPollMaxAttempts)
    /\ pollIntervalMs' = DefaultParam(args.pollIntervalMs, DefaultPollIntervalMs)
    /\ attempts' = 0
    /\ PollStatusLoopHead(requests, 0, Some(args.reportId),
                          DefaultParam(args.maxAttempts, DefaultPollMaxAttempts))
    /\ UNCHANGED <<args, client, sleeps, returned, pendingBody, retry, sideVars>>

\* The status GET is answered: the rest of the loop body.
PollStatusAnswered ==
    /\ pc = "pollStatus"
    /\ \E o \in GetAnswers(pendingBody) :
          LET log == Answered(requests, o)
              st == o.data
          IN  IF ~o.ok
              THEN /\ requests' = log
                   /\ pc' = "pollThrown"
                   /\ thrown' = Some(Interceptor(o))
                   /\ UNCHANGED <<attempts, sleeps, returned>>
              ELSE IF IsSuccess(st)
              THEN /\ requests' = log
                   /\ pc' = "pollReturned"
                   /\ returned' = Some(st)
                   /\ UNCHANGED <<attempts, sleeps, thrown>>
              ELSE IF IsFailure(st)
              THEN /\ requests' = log
                   /\ pc' = "pollThrown"
                   /\ thrown' = Some(NewError(FailureMessage(st)))
                   /\ UNCHANGED <<attempts, sleeps, returned>>
              ELSE /\ attempts' = attempts + 1
                   /\ returned' = returned
                   /\ IF SleepsBeforeNextPoll(attempts + 1, maxAttempts)
                      THEN /\ sleeps' = Append(sleeps, pollIntervalMs)
                           /\ requests' = log
                           /\ pc' = "pollSleep"
                           /\ UNCHANGED thrown
                      ELSE /\ sleeps' = sleeps
                           /\ PollStatusLoopHead(log, attempts + 1, reportId, maxAttempts)
    /\ UNCHANGED <<args, client, reportId, maxAttempts, pollIntervalMs, pendingBody, retry, sideVars>>

\* The interval has passed: back to the loop head.
PollStatusSleepDone ==
    /\ pc = "pollSleep"
    /\ PollStatusLoopHead(requests, attempts, reportId, maxAttempts)
    /\ UNCHANGED <<args, client, reportId, maxAttempts, pollIntervalMs, attempts,
                   sleeps, returned, pendingBody, retry, sideVars>>

-----------------------------------------------------------------------------
(* The HTTP transport: one request to POST /mcp *)

ToolNames ==
    {"get_profiles", "get_campaigns", "get_ad_groups", "get_keywords",
     "get_product_ads", "get_reports", "healthcheck"}

\* The tools whose handlers bind and require a profile before anything else.
ScopedToolNames ==
    {"get_campaigns", "get_ad_groups", "get_keywords", "get_product_ads", "get_reports"}

\* user_credentials as a caller may send them: every field optional.
RpcCredentials ==
    [access_token : {Undefined, Some("tokA")}, client_id : {Undefined, Some("cidA")},
     profile_id : {Undefined, Some(""), Some("P1")},
     sessionToken : {Undefined, Some("S1")}]

\* params.arguments of a tools/call.
RpcArguments ==
    [user_credentials : {Undefined} \cup {Some(uc) : uc \in RpcCredentials},
     date_range : {Undefined,
                   Some([start_date |-> Some("20240101"), end_date |-> Some("20240107")])}]

\* The bodies posted to /mcp.
RpcRequests ==
    {[method |-> m, id |-> i, name |-> "", arguments |-> Undefined] :
        m \in {"initialize", "tools/list", "resources/list"}, i \in {1, 2}}
    \cup {[method |-> "tools/call", id |-> i, name |-> n, arguments |-> a] :
            i \in {1, 2}, n \in ToolNames \cup {"get_budgets"},
            a \in {Undefined} \cup {Some(x) : x \in RpcArguments}}

\* createAmazonAdsClientFromRequest, an async function: the promise it returns.
\* In session mode it is pending on the token exchange; in direct mode it is
\* settled at once, rejected when a credential is missing.
ClientPromise(uc) ==
    IF uc = Undefined
    THEN [state |-> "rejected", reason |-> <<"Missing user_credentials">>]
    ELSE IF Truthy(uc[1].sessionToken)
    THEN [state |-> "pending", reason |-> <<>>]
    ELSE IF ~Truthy(uc[1].access_token)
    THEN [state |-> "rejected", reason |-> <<"Missing access_token in user_credentials">>]
    ELSE IF ~Truthy(uc[1].client_id)
    THEN [state |-> "rejected", reason |-> <<"Missing client_id in user_credentials">>]
    ELSE [state |-> "fulfilled", reason |-> <<>>]

\* The TypeError of calling a method of AmazonAdsClient on a value that has
\* none of them, as a Promise has not.
NotAFunction(method) == NewError(<<"client.", method, " is not a function">>)

\* The first use a handler makes of its client argument.
FirstClientCall(name, a) ==
    IF name \in ScopedToolNames
    THEN IF a.user_credentials # Undefined /\ Truthy(a.user_credentials[1].profile_id)
         THEN "setProfile"
         ELSE "getProfileId"
    ELSE "get"

\* The handler of the tool, given the promise of a client instead of a client:
\* its first use of the client throws inside its try block, and its catch block
\* decides what the handler settles with.
HandlerGivenPromise(name, a, ms) ==
    LET e == NotAFunction(FirstClientCall(name, a))
    IN  IF name = "healthcheck"
        THEN [ok |-> TRUE, error |-> Undefined,
              value |-> Some(HealthcheckResult(HealthcheckStatus(e), FALSE, FALSE, 0, ms))]
        ELSE IF name = "get_profiles"
        THEN [ok |-> FALSE, error |-> Some(GetProfilesCatch(e)), value |-> Undefined]
        ELSE [ok |-> FALSE, error |-> Some(HandlerCatch(e)), value |-> Undefined]

\* JSON.stringify(result, null, 2): the text, kept as the value it encodes.
Stringify(v) == [json |-> v]

\* res.json / res.status(...).json of a JSON-RPC response.
RpcResult(id, result) ==
    [http |-> 200, id |-> id, result |-> Some(result), error |-> Undefined]

RpcError(http, id, code, message, data) ==
    [http |-> http, id |-> id, result |-> Undefined,
     error |-> Some([code |-> code, message |-> message, data |-> data])]

\* The catch block of tools/call: the answer for the error caught.
ToolErrorResponse(id, e) ==
    RpcError(200, id, -32000,
             IF e.message = <<>> \/ e.message = <<"">> THEN <<"Tool execution failed">>
             ELSE e.message,
             Some([type |-> OrElse(e.type, "INTERNAL"), upstream_code |-> e.upstream_code]))

\* The answer to a tools/call whose handler returned result.
ToolResultResponse(id, result) ==
    RpcResult(id, [content |-> <<[type |-> "text", text |-> Stringify(result)]>>])

\* The request is received: everything up to the response, or up to the await
\* of the tool handler's promise.  The client promise is handed to the handler
\* as it is, without being awaited.
McpPost ==
    /\ rpc.pc = "received"
    /\ LET req == rpc.request
       IN  IF req.method = "initialize"
           THEN rpc' = [rpc EXCEPT !.pc = "responded",
                           !.response = Some(RpcResult(req.id,
                               [protocolVersion |-> "2024-11-05",
                                serverInfo |-> [name |-> "mcp-amazon-ads",
                                                version |-> "1.0.0"]]))]
           ELSE IF req.method = "tools/list"
           THEN rpc' = [rpc EXCEPT !.pc = "responded",
                           !.response = Some(RpcResult(req.id, [tools |-> ToolNames]))]
           ELSE IF req.method = "tools/call"
           THEN IF req.arguments = Undefined
                THEN rpc' = [rpc EXCEPT !.pc = "responded",
                                !.response = Some(ToolErrorResponse(req.id, NewError(
                                    <<"Cannot read properties of undefined (reading 'user_credentials')">>)))]
                ELSE IF req.name \notin ToolNames
                THEN rpc' = [rpc EXCEPT !.pc = "responded",
                                !.client = ClientPromise(req.arguments[1].user_credentials),
                                !.response = Some(ToolErrorResponse(req.id,
                                    NewError(<<"Unknown tool: ", req.name>>)))]
                ELSE \E ms \in ResponseTimes :
                        rpc' = [rpc EXCEPT !.pc = "awaiting",
                                   !.client = ClientPromise(req.arguments[1].user_credentials),
                                   !.handler = Some(HandlerGivenPromise(req.name,
                                                        req.arguments[1], ms))]
           ELSE rpc' = [rpc EXCEPT !.pc = "responded",
                           !.response = Some(RpcError(400, req.id, -32601,
                               <<"Method not found: ", req.method>>, Undefined))]
    /\ UNCHANGED <<wfVars, retry, metric, tool, inst, parked, date, stdio>>

\* The handler's promise has settled: the result, or the catch block's answer.
ToolCallSettled ==
    /\ rpc.pc = "awaiting"
    /\ rpc' = [rpc EXCEPT !.pc = "responded",
                  !.response =
                      IF rpc.handler[1].ok
                      THEN Some(ToolResultResponse(rpc.request.id, rpc.handler[1].value[1]))
                      ELSE Some(ToolErrorResponse(rpc.request.id, rpc.handler[1].error[1]))]
    /\ UNCHANGED <<wfVars, retry, metric, tool, inst, parked, date, stdio>>

\* The requests as they arrive.
RpcCalls ==
    {[pc |-> "received", request |-> req, client |-> [state |-> "none", reason |-> <<>>],
      handler |-> Undefined, response |-> Undefined] : req \in RpcRequests}

-----------------------------------------------------------------------------
(* Date utilities: strings are sequences of characters, a Date is its local   *)
(* calendar fields (month from 0) or the invalid Date                          *)

DigitChars == <<"0", "1", "2", "3", "4", "5", "6", "7", "8", "9">>

IsDigit(ch) == \E i \in 1..10 : DigitChars[i] = ch

DigitValue(ch) == (CHOOSE i \in 1..10 : DigitChars[i] = ch) - 1

RECURSIVE NumberChars(_)
\* String(n) for a natural n.
NumberChars(n) ==
    IF n < 10 THEN <<DigitChars[n + 1]>>
    ELSE Append(NumberChars(n \div 10), DigitChars[(n % 10) + 1])

\* str.padStart(2, '0')
PadStart2(chars) == IF Len(chars) < 2 THEN <<"0">> \o chars ELSE chars

RECURSIVE LeadingDigits(_)
\* The longest prefix of digits.
LeadingDigits(chars) ==
    IF Len(chars) = 0 \/ ~IsDigit(chars[1]) THEN <<>>
    ELSE <<chars[1]>> \o LeadingDigits(Tail(chars))

RECURSIVE DigitsValue(_)
DigitsValue(chars) ==
    IF Len(chars) = 0 THEN 0
    ELSE 10 * DigitsValue(SubSeq(chars, 1, Len(chars) - 1)) + DigitValue(chars[Len(chars)])

\* parseInt(str) for a string without sign or leading blank: the value of its
\* leading digits, NaN (undefined here) when it starts with no digit.
parseInt(chars) ==
    IF LeadingDigits(chars) = <<>> THEN Undefined
    ELSE Some(DigitsValue(LeadingDigits(chars)))

\* str.substring(a, b), a <= b, positions from 0.
Substring(chars, a, b) == SubSeq(chars, a + 1, IF b < Len(chars) THEN b ELSE Len(chars))

IsLeapYear(y) == (y % 4 = 0 /\ y % 100 # 0) \/ y % 400 = 0

\* Days of month m (from 0) of year y.
DaysInMonth(y, m) ==
    IF m = 1 THEN (IF IsLeapYear(y) THEN 29 ELSE 28)
    ELSE IF m \in {3, 5, 8, 10} THEN 30
    ELSE 31

InvalidDate == [valid |-> FALSE, year |-> 0, month |-> 0, day |-> 0]

RECURSIVE MakeDay(_, _, _)
\* The calendar date of day number d of month m (from 0, any integer) of year y:
\* months and days outside their range carry over.
MakeDay(y, m, d) ==
    IF m < 0 THEN MakeDay(y - 1, m + 12, d)
    ELSE IF m > 11 THEN MakeDay(y + 1, m - 12, d)
    ELSE IF d < 1
    THEN (IF m = 0 THEN MakeDay(y - 1, 11, d + 31)
          ELSE MakeDay(y, m - 1, d + DaysInMonth(y, m - 1)))
    ELSE IF d > DaysInMonth(y, m) THEN MakeDay(y, m + 1, d - DaysInMonth(y, m))
    ELSE [valid |-> TRUE, year |-> y, month |-> m, day |-> d]

\* new Date(year, month, day) in local time: NaN gives the invalid Date, a year
\* from 0 to 99 means 1900 + year, and fields out of range carry over.
NewDate(year, month, day) ==
    IF year = Undefined \/ month = Undefined \/ day = Undefined THEN InvalidDate
    ELSE MakeDay(IF year[1] >= 0 /\ year[1] <= 99 THEN 1900 + year[1] ELSE year[1],
                 month[1], day[1])

\* new Date('YYYY-MM-DD'): midnight UTC of that day, which in local time is the
\* same day at or ahead of UTC and the day before behind UTC.
ParseIsoDate(iso, behindUtc) ==
    IF behindUtc THEN MakeDay(iso.year, iso.month, iso.day - 1)
    ELSE MakeDay(iso.year, iso.month, iso.day)

\* String(x) for the result of a Date getter (plus offset): NaN on the invalid
\* Date.
GetterChars(d, n) == IF d.valid THEN NumberChars(n) ELSE <<"N", "a", "N">>

\* toAmazonDateFormat for a Date d (year >= 0)
toAmazonDateFormat(d) ==
    GetterChars(d, d.year) \o PadStart2(GetterChars(d, d.month + 1))
        \o PadStart2(GetterChars(d, d.day))

\* fromAmazonDateFormat: does it throw?
fromAmazonDateFormatThrows(chars) == Len(chars) # 8

\* fromAmazonDateFormat for a string of length 8
fromAmazonDateFormat(chars) ==
    LET year == parseInt(Substring(chars, 0, 4))
        month == parseInt(Substring(chars, 4, 6))
        day == parseInt(Substring(chars, 6, 8))
    IN  NewDate(year, IF month = Undefined THEN Undefined ELSE Some(month[1] - 1), day)

\* /^\d{8}$/.test(dateStr)
EightDigits(chars) == Len(chars) = 8 /\ \A i \in 1..8 : IsDigit(chars[i])

isValidAmazonDate(chars) ==
    IF ~EightDigits(chars) THEN FALSE
    ELSE IF fromAmazonDateFormatThrows(chars) THEN FALSE
    ELSE fromAmazonDateFormat(chars).valid

\* The values the utilities are applied to and return.
DateValue(d) == [kind |-> "date", date |-> d, chars |-> <<>>]
IsoValue(d) == [kind |-> "iso", date |-> d, chars |-> <<>>]
StringValue(chars) == [kind |-> "string", date |-> InvalidDate, chars |-> chars]

Years == {0, 50, 99, 100, 999, 1000, 1900, 2023, 2024, 9999}

\* n as a string of exactly w digits.
FieldChars(n, w) ==
    IF w = 4
    THEN <<DigitChars[((n \div 1000) % 10) + 1], DigitChars[((n \div 100) % 10) + 1],
           DigitChars[((n \div 10) % 10) + 1], DigitChars[(n % 10) + 1]>>
    ELSE <<DigitChars[((n \div 10) % 10) + 1], DigitChars[(n % 10) + 1]>>

\* Every real calendar date of the years above, and of the year 10000.
CalendarDates ==
    UNION {{[valid |-> TRUE, year |-> y, month |-> m, day |-> d] :
                d \in 1..DaysInMonth(y, m)} : y \in Years \cup {10000}, m \in 0..11}

\* Dates written as 'YYYY-MM-DD' strings.
IsoDates == {d \in CalendarDates : d.year \in {2023, 2024} /\ d.day \in {1, 15}}

\* Strings of 8 digits: a year, a month field and a day field, real or not.
EightDigitStrings ==
    {FieldChars(y, 4) \o FieldChars(m, 2) \o FieldChars(d, 2) :
        y \in Years, m \in 0..MaxMonthField, d \in {0, 1, 28, 29, 30, 31, MaxDayField}}

\* Strings that are not 8 digits.
MalformedStrings ==
    {<<>>,
     <<"2", "0", "2", "4", "0", "1", "1">>,
     <<"2", "0", "2", "4", "0", "1", "1", "5", "0">>,
     <<"2", "0", "2", "4", "-", "0", "1", "-">>,
     <<"2", "0", "2", "4", "0", "1", "1", "a">>,
     <<"a", "b", "c", "d", "e", "f", "g", "h">>,
     <<"2", "0", "2", "4", "0", "1", " ", "5">>,
     <<"2", "0", "2", "4", "1", "3", "0", "1", "x">>}

\* One application: the value given and whether local time is behind UTC.
DateCalls ==
    {[pc |-> "live", values |-> <<v>>, valid |-> Undefined, behindUtc |-> b] :
        v \in {DateValue(d) : d \in CalendarDates}
              \cup {IsoValue(d) : d \in IsoDates}
              \cup {StringValue(s) : s \in EightDigitStrings \cup MalformedStrings},
        b \in BOOLEAN}

\* toAmazonDateFormat is applied to the Date, or the 'YYYY-MM-DD' string, at hand.
ToAmazonDateFormat ==
    /\ date.pc = "live"
    /\ Len(date.values) < 3
    /\ date.values[Len(date.values)].kind \in {"date", "iso"}
    /\ LET v == date.values[Len(date.values)]
           d == IF v.kind = "iso" THEN ParseIsoDate(v.date, date.behindUtc) ELSE v.date
       IN  date' = [date EXCEPT !.values = Append(@, StringValue(toAmazonDateFormat(d)))]
    /\ UNCHANGED <<wfVars, retry, metric, tool, inst, parked, rpc, stdio>>

\* fromAmazonDateFormat is applied to the string at hand.
FromAmazonDateFormat ==
    /\ date.pc = "live"
    /\ Len(date.values) < 3
    /\ date.values[Len(date.values)].kind = "string"
    /\ LET chars == date.values[Len(date.values)].chars
       IN  IF fromAmazonDateFormatThrows(chars)
           THEN date' = [date EXCEPT !.pc = "thrown"]
           ELSE date' = [date EXCEPT !.values = Append(@,
                             DateValue(fromAmazonDateFormat(chars)))]
    /\ UNCHANGED <<wfVars, retry, metric, tool, inst, parked, rpc, stdio>>

\* isValidAmazonDate is applied to the string given.
IsValidAmazonDate ==
    /\ date.pc = "live"
    /\ Len(date.values) = 1
    /\ date.values[1].kind = "string"
    /\ date' = [date EXCEPT !.pc = "validated",
                            !.valid = Some(isValidAmazonDate(date.values[1].chars))]
    /\ UNCHANGED <<wfVars, retry, metric, tool, inst, parked, rpc, stdio>>

-----------------------------------------------------------------------------
(* The stdio transport: one tools/call request, from the credentials to the
   tool handler and the answer *)

\* new McpError(code, message); the text the SDK puts before the message is
\* not kept.
McpError(code, msg) == [code |-> code, message |-> msg]

\* The catch block of the CallTool handler: whatever was thrown inside the try
\* block leaves as an InternalError with error.message || 'Tool execution failed'.
CallToolCatch(e) ==
    McpError("InternalError",
             IF e.message = <<>> \/ e.message = <<"">> THEN <<"Tool execution failed">>
             ELSE e.message)

\* What a function ends with: a value returned, or an error thrown.
Returned(v) == [ok |-> TRUE, value |-> Some(v), error |-> Undefined]
Thrown(e) == [ok |-> FALSE, value |-> Undefined, error |-> Some(e)]

\* The bodies the token endpoint sends: {success, error?, tokens?}.
TokenBodies ==
    {[success |-> FALSE, error |-> e, tokens |-> Undefined] :
        e \in {Undefined, Some("session expired")}}
    \cup {[success |-> TRUE, error |-> Undefined, tokens |-> Undefined]}
    \cup {[success |-> TRUE, error |-> Undefined,
           tokens |-> Some([access_token |-> t, client_id |-> c, profile_id |-> p])] :
            t \in {Undefined, Some("tokS")}, c \in {Undefined, Some("cidS")},
            p \in {Undefined, Some("P9")}}

\* What axios.post(TOKEN_ENDPOINT, ...) settles with: a 2xx answer, an answer
\* with another status (with or without an error text), or no answer at all.
TokenAnswers ==
    {[ok |-> TRUE, hasResponse |-> TRUE, status |-> 200, retryAfter |-> Undefined,
      data |-> b] : b \in TokenBodies}
    \cup {[ok |-> FALSE, hasResponse |-> TRUE, status |-> s, retryAfter |-> Undefined,
           data |-> [success |-> FALSE, error |-> e, tokens |-> Undefined]] :
            s \in {400, 404, 500}, e \in {Undefined, Some("bad session")}}
    \cup {[ok |-> FALSE, hasResponse |-> FALSE, status |-> 0, retryAfter |-> Undefined,
           data |-> [success |-> FALSE, error |-> Undefined, tokens |-> Undefined]]}

\* axios.post(TOKEN_ENDPOINT, {sessionToken, platform}, ...)
TokenRequest(sessionToken) ==
    [sessionToken |-> sessionToken, platform |-> "amazon_ads", answer |-> Undefined]

\* retrievePlatformTokens from the answer of the token endpoint on: the tokens,
\* or the error of the try block or of the catch block.
retrievePlatformTokens(o) ==
    IF o.ok
    THEN IF ~o.data.success
         THEN Thrown(NewError(<<OrElse(o.data.error, "Failed to retrieve tokens")>>))
         ELSE IF o.data.tokens = Undefined \/ ~Truthy(o.data.tokens[1].access_token)
         THEN Thrown(NewError(<<"No access token available for platform: ", "amazon_ads">>))
         ELSE Returned(o.data.tokens[1])
    ELSE LET message == IF Truthy(o.data.error) THEN <<o.data.error[1]>>
                        ELSE AxiosError(o).message
         IN  IF o.hasResponse /\ o.status = 404
             THEN Thrown(NewError(<<"Session not found or no ", "amazon_ads",
                   " connection available. User may need to reconnect their account.">>))
             ELSE IF o.hasResponse /\ o.status = 400
             THEN Thrown(NewError(<<"Invalid session token or platform: ">> \o message))
             ELSE Thrown(NewError(<<"Failed to retrieve tokens from backend: ">> \o message))

\* Mutant: a client is made of the tokens whether a client id is known or not.
SessionClientAnyClientId(uc, tokens) ==
    Returned(NewClient([access_token |-> tokens.access_token[1],
                        client_id |-> IF Truthy(tokens.client_id) THEN tokens.client_id[1]
                                      ELSE OrElse(uc.client_id, ""),
                        profile_id |-> IF Truthy(tokens.profile_id) THEN tokens.profile_id
                                       ELSE uc.profile_id]))

\* createAmazonAdsClientFromRequest, session mode, once the tokens are there.
SessionClient(uc, tokens) ==
    LET client_id == IF Truthy(tokens.client_id) THEN tokens.client_id[1]
                     ELSE OrElse(uc.client_id, "")
        profile_id == IF Truthy(tokens.profile_id) THEN tokens.profile_id
                      ELSE uc.profile_id
    IN  IF client_id = ""
        THEN Thrown(NewError(<<"Missing client_id in tokens or user_credentials">>))
        ELSE Returned(NewClient([access_token |-> tokens.access_token[1],
                                 client_id |-> client_id, profile_id |-> profile_id]))

\* createAmazonAdsClientFromRequest, direct mode: no (truthy) sessionToken.
DirectClient(uc) ==
    IF ~Truthy(uc.access_token)
    THEN Thrown(NewError(<<"Missing access_token in user_credentials">>))
    ELSE IF ~Truthy(uc.client_id)
    THEN Thrown(NewError(<<"Missing client_id in user_credentials">>))
    ELSE Returned(NewClient([access_token |-> uc.access_token[1],
                             client_id |-> uc.client_id[1],
                             profile_id |-> uc.profile_id]))

\* o || d for an optional number o: undefined and 0 are falsy.
NumberOr(o, d) == IF o = Undefined \/ o[1] = 0 THEN d ELSE o[1]

\* The query parameters of the four list adapters.  The id and name filters are
\* never given in the calls considered, so their parameters are never set.
ListParams(a) ==
    [startIndex |-> IF a.paging = Undefined THEN 0
                    ELSE NumberOr(a.paging[1].start_index, 0),
     count |-> Min(IF a.paging = Undefined THEN 100
                   ELSE NumberOr(a.paging[1].count, 100), 100),
     stateFilter |-> IF a.filters # Undefined /\ Truthy(a.filters[1].state)
                     THEN a.filters[1].state ELSE Undefined]

\* client.get(endpoint, params) of a list adapter.
ListRequest(c, path, params) ==
    [method |-> "GET", path |-> path, body |-> Undefined, params |-> Some(params),
     scoped |-> TRUE, headers |-> c.headers, answer |-> Undefined]

\* The entities the list endpoints send; of their fields only the id and the
\* state are kept.
ListedEntities ==
    {<<>>, <<[id |-> 11, state |-> "enabled"]>>,
     <<[id |-> 11, state |-> "enabled"], [id |-> 12, state |-> "paused"]>>}

ListAnswers == {OkAnswer(a) : a \in ListedEntities} \cup FailedAnswers

\* entities.map(...): the id as a string, the state as it is.
ListEntries(entities) ==
    [i \in 1..Len(entities) |->
        [id |-> ToString(entities[i].id), state |-> entities[i].state]]

\* Mutant: only a client without any profile value is turned away.
ProfileMissingOnlyUndefined(c) == getProfileId(c) = Undefined

\* !client.getProfileId()
ProfileMissing(c) == ~Truthy(getProfileId(c))

\* The handlers' throw for a client without a profile, through their catch block.
ProfileRequired(t, c) ==
    [t EXCEPT !.client = c, !.pc = "failed",
              !.thrown = Some(HandlerCatch(ValidationError(
                             <<"profile_id is required in user_credentials">>)))]

\* A list adapter up to its await client.get: its own test of the profile, whose
\* error goes through the handler's catch block, then the request.
FetchList(t, c, api, path) ==
    IF ~Truthy(getProfileId(c))
    THEN [t EXCEPT !.client = c, !.pc = "failed",
                   !.thrown = Some(HandlerCatch(NewError(
                                  <<"Profile ID is required for ", api, " API">>)))]
    ELSE [t EXCEPT !.client = c, !.pc = "list",
                   !.requests = Append(@, ListRequest(c, path, ListParams(t.args)))]

\* The list request failed: the handler's catch block.
ListFailed(t, o) ==
    [t EXCEPT !.pc = "failed", !.thrown = Some(HandlerCatch(Interceptor(o)))]

\* handleGetCampaigns up to fetchCampaigns' await client.get(...).
HandleGetCampaigns ==
    /\ tool.pc = "start" /\ tool.name = "get_campaigns"
    /\ LET c == BoundClient(tool.client, tool.args)
       IN  tool' = IF ProfileMissing(c) THEN ProfileRequired(tool, c)
                   ELSE FetchList(tool, c, "campaigns",
                            <<"/v2/", OrElse(tool.args.campaign_type, "sp"), "/campaigns">>)
    /\ UNCHANGED <<wfVars, retry, metric, inst, parked, date, rpc, stdio>>

\* The campaigns are there: the rest of handleGetCampaigns.
GetCampaignsAnswered ==
    /\ tool.pc = "list" /\ tool.name = "get_campaigns"
    /\ \E o \in ListAnswers :
          LET t == [tool EXCEPT !.requests = Answered(@, o)]
          IN  tool' = IF ~o.ok THEN ListFailed(t, o)
                      ELSE [t EXCEPT !.pc = "done",
                               !.returned = Some([campaigns |-> ListEntries(o.data),
                                                  total_count |-> Len(o.data),
                                                  profile_id |-> getProfileId(t.client)])]
    /\ UNCHANGED <<wfVars, retry, metric, inst, parked, date, rpc, stdio>>

\* handleGetAdGroups up to fetchAdGroups' await client.get(...).
HandleGetAdGroups ==
    /\ tool.pc = "start" /\ tool.name = "get_ad_groups"
    /\ LET c == BoundClient(tool.client, tool.args)
       IN  tool' = IF ProfileMissing(c) THEN ProfileRequired(tool, c)
                   ELSE FetchList(tool, c, "ad groups",
                            <<"/v2/", OrElse(tool.args.campaign_type, "sp"), "/adGroups">>)
    /\ UNCHANGED <<wfVars, retry, metric, inst, parked, date, rpc, stdio>>

\* The ad groups are there: the rest of handleGetAdGroups.
GetAdGroupsAnswered ==
    /\ tool.pc = "list" /\ tool.name = "get_ad_groups"
    /\ \E o \in ListAnswers :
          LET t == [tool EXCEPT !.requests = Answered(@, o)]
          IN  tool' = IF ~o.ok THEN ListFailed(t, o)
                      ELSE [t EXCEPT !.pc = "done",
                               !.returned = Some([ad_groups |-> ListEntries(o.data),
                                                  total_count |-> Len(o.data),
                                                  profile_id |-> getProfileId(t.client)])]
    /\ UNCHANGED <<wfVars, retry, metric, inst, parked, date, rpc, stdio>>

\* handleGetKeywords up to fetchKeywords' await client.get(...).
HandleGetKeywords ==
    /\ tool.pc = "start" /\ tool.name = "get_keywords"
    /\ LET c == BoundClient(tool.client, tool.args)
       IN  tool' = IF ProfileMissing(c) THEN ProfileRequired(tool, c)
                   ELSE FetchList(tool, c, "keywords", <<"/v2/sp/keywords">>)
    /\ UNCHANGED <<wfVars, retry, metric, inst, parked, date, rpc, stdio>>

\* The keywords are there: the rest of handleGetKeywords.
GetKeywordsAnswered ==
    /\ tool.pc = "list" /\ tool.name = "get_keywords"
    /\ \E o \in ListAnswers :
          LET t == [tool EXCEPT !.requests = Answered(@, o)]
          IN  tool' = IF ~o.ok THEN ListFailed(t, o)
                      ELSE [t EXCEPT !.pc = "done",
                               !.returned = Some([keywords |-> ListEntries(o.data),
                                                  total_count |-> Len(o.data),
                                                  profile_id |-> getProfileId(t.client)])]
    /\ UNCHANGED <<wfVars, retry, metric, inst, parked, date, rpc, stdio>>

\* handleGetProductAds up to fetchProductAds' await client.get(...).
HandleGetProductAds ==
    /\ tool.pc = "start" /\ tool.name = "get_product_ads"
    /\ LET c == BoundClient(tool.client, tool.args)
       IN  tool' = IF ProfileMissing(c) THEN ProfileRequired(tool, c)
                   ELSE FetchList(tool, c, "product ads", <<"/v2/sp/productAds">>)
    /\ UNCHANGED <<wfVars, retry, metric, inst, parked, date, rpc, stdio>>

\* The product ads are there: the rest of handleGetProductAds.
GetProductAdsAnswered ==
    /\ tool.pc = "list" /\ tool.name = "get_product_ads"
    /\ \E o \in ListAnswers :
          LET t == [tool EXCEPT !.requests = Answered(@, o)]
          IN  tool' = IF ~o.ok THEN ListFailed(t, o)
                      ELSE [t EXCEPT !.pc = "done",
                               !.returned = Some([product_ads |-> ListEntries(o.data),
                                                  total_count |-> Len(o.data),
                                                  profile_id |-> getProfileId(t.client)])]
    /\ UNCHANGED <<wfVars, retry, metric, inst, parked, date, rpc, stdio>>

\* The try block of the CallTool handler leaves with the error e.
CallToolThrows(s, e) ==
    /\ stdio' = [s EXCEPT !.pc = "failed", !.error = Some(CallToolCatch(e))]
    /\ UNCHANGED <<wfVars, tool>>

\* The switch on the tool's name, entered with the client c: the handler of the
\* tool is called with (client, args); for a name without a case, MethodNotFound
\* is thrown inside the try block.
SwitchOnName(s, c) ==
    IF s.name = "get_reports"
    THEN /\ stdio' = [s EXCEPT !.pc = "handler"]
         /\ args' = s.arguments[1]
         /\ client' = c
         /\ pc' = "start"
         /\ UNCHANGED <<reportId, maxAttempts, pollIntervalMs, attempts, requests,
                        sleeps, thrown, returned, pendingBody, tool>>
    ELSE IF s.name \in ToolNames
    THEN /\ stdio' = [s EXCEPT !.pc = "handler"]
         /\ tool' = [name |-> s.name, pc |-> "start", client |-> c,
                     args |-> s.arguments[1], requests |-> <<>>,
                     thrown |-> Undefined, returned |-> Undefined]
         /\ UNCHANGED wfVars
    ELSE CallToolThrows(s, McpError("MethodNotFound", <<"Unknown tool: ", s.name>>))

\* The request arrives: the test of the arguments, then
\* createAmazonAdsClientFromRequest, awaited: up to the token exchange in
\* session mode, and in direct mode through to the switch.
CallTool ==
    /\ stdio.pc = "start"
    /\ IF stdio.arguments = Undefined
       THEN CallToolThrows(stdio, McpError("InvalidParams", <<"Missing arguments">>))
       ELSE LET uc == stdio.arguments[1].user_credentials
            IN  IF uc = Undefined
                THEN CallToolThrows(stdio, NewError(<<"Missing user_credentials">>))
                ELSE IF Truthy(uc[1].sessionToken)
                THEN /\ stdio' = [stdio EXCEPT !.pc = "tokens",
                                     !.tokenRequest = Some(TokenRequest(uc[1].sessionToken[1]))]
                     /\ UNCHANGED <<wfVars, tool>>
                ELSE LET made == DirectClient(uc[1])
                     IN  IF made.ok
                         THEN SwitchOnName([stdio EXCEPT !.created = made.value], made.value[1])
                         ELSE CallToolThrows(stdio, made.error[1])
    /\ UNCHANGED <<retry, metric, inst, parked, date, rpc>>

\* The token endpoint has answered: the rest of retrievePlatformTokens and of
\* createAmazonAdsClientFromRequest, then the switch.
TokensAnswered ==
    /\ stdio.pc = "tokens"
    /\ \E o \in TokenAnswers :
          LET s == [stdio EXCEPT !.tokenRequest[1].answer = Some(o)]
              tokens == retrievePlatformTokens(o)
          IN  IF ~tokens.ok
              THEN CallToolThrows(s, tokens.error[1])
              ELSE LET made == SessionClient(stdio.arguments[1].user_credentials[1],
                                             tokens.value[1])
                   IN  IF made.ok
                       THEN SwitchOnName([s EXCEPT !.created = made.value], made.value[1])
                       ELSE CallToolThrows(s, made.error[1])
    /\ UNCHANGED <<retry, metric, inst, parked, date, rpc>>

\* The handler has settled: its result goes out as text, its error through the
\* catch block.
HandlerSettled ==
    /\ stdio.pc = "handler"
    /\ IF stdio.name = "get_reports"
       THEN /\ pc \in {"done", "failed"}
            /\ stdio' = IF pc = "done"
                        THEN [stdio EXCEPT !.pc = "answered",
                                 !.response = Some([content |-> <<[type |-> "text",
                                                  text |-> Stringify(returned[1])]>>])]
                        ELSE [stdio EXCEPT !.pc = "failed",
                                 !.error = Some(CallToolCatch(thrown[1]))]
       ELSE /\ tool.pc \in {"done", "failed"}
            /\ stdio' = IF tool.pc = "done"
                        THEN [stdio EXCEPT !.pc = "answered",
                                 !.response = Some([content |-> <<[type |-> "text",
                                                  text |-> Stringify(tool.returned[1])]>>])]
                        ELSE [stdio EXCEPT !.pc = "failed",
                                 !.error = Some(CallToolCatch(tool.thrown[1]))]
    /\ UNCHANGED <<wfVars, retry, metric, tool, inst, parked, date, rpc>>

\* user_credentials as a caller may send them: every field optional.
StdioCredentials ==
    [sessionToken : {Undefined, Some("S1")}, access_token : {Undefined, Some("tokA")},
     client_id : {Undefined, Some("cidA")}, profile_id : {Undefined, Some(""), Some("P1")}]

\* The credentials get_reports is called with: a direct call with and without a
\* profile, a session call with and without one.
ReportCallCredentials ==
    {uc \in StdioCredentials :
        /\ uc.profile_id # Some("")
        /\ \/ uc.sessionToken = Undefined /\ uc.access_token # Undefined
                /\ uc.client_id # Undefined
           \/ uc.sessionToken # Undefined /\ uc.access_token = Undefined
                /\ uc.client_id = Undefined}

\* The arguments next to user_credentials.
PlainArguments ==
    [user_credentials |-> Undefined, report_type |-> Undefined,
     campaign_type |-> Undefined, date_range |-> Undefined, metrics |-> Undefined,
     filters |-> Undefined, time_unit |-> Undefined, paging |-> Undefined]

ToolArguments(name) ==
    IF name = "get_reports"
    THEN {[PlainArguments EXCEPT
              !.date_range = Some([start_date |-> Some("20240101"),
                                   end_date |-> Some("20240131")])]}
    ELSE IF name \in ScopedToolNames
    THEN {PlainArguments,
          [PlainArguments EXCEPT
              !.campaign_type = Some("sb"),
              !.filters = Some([state |-> Some("enabled"), campaign_id |-> Undefined]),
              !.paging = Some([start_index |-> Some(0), count |-> Some(250)])]}
    ELSE {PlainArguments}

\* The requests as they arrive: every tool and a name that is none, without
\* arguments, without credentials, and with each of the credentials.
StdioCalls ==
    {[pc |-> "start", name |-> n, arguments |-> Undefined, tokenRequest |-> Undefined,
      created |-> Undefined, error |-> Undefined, response |-> Undefined] :
        n \in ToolNames \cup {"get_budgets"}}
    \cup UNION {
        {[pc |-> "start", name |-> n, arguments |-> Some([a EXCEPT !.user_credentials = uc]),
          tokenRequest |-> Undefined, created |-> Undefined, error |-> Undefined,
          response |-> Undefined] :
            a \in ToolArguments(n),
            uc \in {Undefined}
                   \cup {Some(x) : x \in IF n = "get_reports" THEN ReportCallCredentials
                                         ELSE StdioCredentials}} :
        n \in ToolNames \cup {"get_budgets"}}

-----------------------------------------------------------------------------
(* Specification of the report workflow *)

RetryIdle == [pc |-> "idle"]
MetricIdle == [pc |-> "idle"]
ToolIdle == [pc |-> "idle"]
InstIdle == [pc |-> "idle"]
DateIdle == [pc |-> "idle"]
RpcIdle == [pc |-> "idle"]
StdioIdle == [pc |-> "idle"]

Init ==
    /\ args \in ReportArgs
    /\ client \in {NewClient(cred) : cred \in Credentials}
    /\ pc = "start"
    /\ reportId = Undefined
    /\ maxAttempts = 0
    /\ pollIntervalMs = 0
    /\ attempts = 0
    /\ requests = <<>>
    /\ sleeps = <<>>
    /\ thrown = Undefined
    /\ returned = Undefined
    /\ pendingBody \in PendingBodies
    /\ retry = RetryIdle
    /\ metric = MetricIdle
    /\ tool = ToolIdle
    /\ inst = InstIdle
    /\ parked = NotParked
    /\ date = DateIdle
    /\ rpc = RpcIdle
    /\ stdio = StdioIdle

Next ==
    \/ HandleGetReports
    \/ PostAnswered
    \/ PollAnswered
    \/ PollSleepDone
    \/ DownloadAnswered

Spec == Init /\ [][Next]_vars

-----------------------------------------------------------------------------
(* Specification of the retry executors *)

\* A call of retryWithBackoff(fn, options) or retryRateLimit(fn, maxAttempts).
\* The options retryWithBackoff is called with: the defaults, and other values.
BackoffOptions ==
    {opt \in [initialDelayMs : {DefaultInitialDelayMs, 500},
              maxDelayMs : {DefaultMaxDelayMs, 3000},
              backoffMultiplier : {DefaultBackoffMultiplier, 3}] :
        \/ opt.initialDelayMs = DefaultInitialDelayMs
        \/ (opt.backoffMultiplier = 3 /\ opt.maxDelayMs = 3000)}

RetryCalls ==
    {[pc |-> "start", policy |-> "backoff", maxAttempts |-> n,
      initialDelayMs |-> opt.initialDelayMs, maxDelayMs |-> opt.maxDelayMs,
      backoffMultiplier |-> opt.backoffMultiplier,
      attempt |-> 0, invocations |-> 0, calls |-> <<>>, sleeps |-> <<>>,
      lastError |-> Undefined, error |-> Undefined, value |-> Undefined] :
        n \in -1..MaxRetryAttempts, opt \in BackoffOptions}
    \cup
    {[pc |-> "start", policy |-> "ratelimit", maxAttempts |-> n,
      initialDelayMs |-> 0, maxDelayMs |-> 0, backoffMultiplier |-> 0,
      attempt |-> 0, invocations |-> 0, calls |-> <<>>, sleeps |-> <<>>,
      lastError |-> Undefined, error |-> Undefined, value |-> Undefined] :
        n \in -1..MaxRetryAttempts}

RetryInit ==
    /\ retry \in RetryCalls
    /\ args = [report_type |-> Undefined, campaign_type |-> Undefined,
               date_range |-> Undefined, metrics |-> Undefined, filters |-> Undefined,
               time_unit |-> Undefined, user_credentials |-> Undefined]
    /\ client = NewClient([access_token |-> "tokA", client_id |-> "cidA",
                           profile_id |-> Undefined])
    /\ pc = "idle"
    /\ reportId = Undefined
    /\ maxAttempts = 0
    /\ pollIntervalMs = 0
    /\ attempts = 0
    /\ requests = <<>>
    /\ sleeps = <<>>
    /\ thrown = Undefined
    /\ returned = Undefined
    /\ pendingBody \in {b \in PendingBodies : b.status = Some("IN_PROGRESS")}
    /\ metric = MetricIdle
    /\ tool = ToolIdle
    /\ inst = InstIdle
    /\ parked = NotParked
    /\ date = DateIdle
    /\ rpc = RpcIdle
    /\ stdio = StdioIdle

RetryNext ==
    \/ BackoffStart
    \/ BackoffSettled
    \/ BackoffSleepDone
    \/ RateLimitStart
    \/ RateLimitSettled
    \/ RateLimitSleepDone

RetrySpec == RetryInit /\ [][RetryNext]_vars

-----------------------------------------------------------------------------
(* Specification of the metric formulas *)

\* No get_reports call is under way.
WorkflowIdle ==
    /\ args = [report_type |-> Undefined, campaign_type |-> Undefined,
               date_range |-> Undefined, metrics |-> Undefined, filters |-> Undefined,
               time_unit |-> Undefined, user_credentials |-> Undefined]
    /\ client = NewClient([access_token |-> "tokA", client_id |-> "cidA",
                           profile_id |-> Undefined])
    /\ pc = "idle"
    /\ reportId = Undefined
    /\ maxAttempts = 0
    /\ pollIntervalMs = 0
    /\ attempts = 0
    /\ requests = <<>>
    /\ sleeps = <<>>
    /\ thrown = Undefined
    /\ returned = Undefined
    /\ pendingBody \in {b \in PendingBodies : b.status = Some("IN_PROGRESS")}

MetricsInit ==
    /\ WorkflowIdle
    /\ retry = RetryIdle
    /\ metric \in MetricCalls
    /\ tool = ToolIdle
    /\ inst = InstIdle
    /\ parked = NotParked
    /\ date = DateIdle
    /\ rpc = RpcIdle
    /\ stdio = StdioIdle

MetricsNext == ApplyMetrics

MetricsSpec == MetricsInit /\ [][MetricsNext]_vars

-----------------------------------------------------------------------------
(* Specification of handleHealthcheck and handleGetProfiles *)

ToolCalls ==
    {[name |-> n, pc |-> "start", client |-> NewClient(cred), requests |-> <<>>,
      thrown |-> Undefined, returned |-> Undefined] :
        n \in {"healthcheck", "get_profiles"}, cred \in Credentials}

ToolInit ==
    /\ WorkflowIdle
    /\ retry = RetryIdle
    /\ metric = MetricIdle
    /\ tool \in ToolCalls
    /\ inst = InstIdle
    /\ parked = NotParked
    /\ date = DateIdle
    /\ rpc = RpcIdle
    /\ stdio = StdioIdle

ToolNext ==
    \/ HandleHealthcheck
    \/ HealthcheckAnswered
    \/ HandleGetProfiles
    \/ GetProfilesAnswered

ToolSpec == ToolInit /\ [][ToolNext]_vars

-----------------------------------------------------------------------------
(* Specification of one client instance *)

ClientInit ==
    /\ WorkflowIdle
    /\ retry = RetryIdle
    /\ metric = MetricIdle
    /\ tool = ToolIdle
    /\ \E cred \in Credentials :
          inst = [pc |-> "live", config |-> cred, client |-> NewClient(cred),
                  calls |-> <<>>]
    /\ parked = NotParked
    /\ date = DateIdle
    /\ rpc = RpcIdle
    /\ stdio = StdioIdle

ClientNext ==
    \/ SetProfile
    \/ ClientGet
    \/ ClientPost
    \/ ClientPut
    \/ ClientDelete

ClientSpec == ClientInit /\ [][ClientNext]_vars

-----------------------------------------------------------------------------
(* Specification of two interleaved get_reports invocations *)

ConcInit ==
    /\ args = Fresh(1).args
    /\ client = Fresh(1).client
    /\ pc = "start"
    /\ reportId = Undefined
    /\ maxAttempts = 0
    /\ pollIntervalMs = 0
    /\ attempts = 0
    /\ requests = <<>>
    /\ sleeps = <<>>
    /\ thrown = Undefined
    /\ returned = Undefined
    /\ pendingBody \in {b \in PendingBodies : b.status = Some("IN_PROGRESS")}
    /\ retry = RetryIdle
    /\ metric = MetricIdle
    /\ tool = ToolIdle
    /\ inst = InstIdle
    /\ parked = [self |-> 1, other |-> 2, state |-> Fresh(2)]
    /\ date = DateIdle
    /\ rpc = RpcIdle
    /\ stdio = StdioIdle

ConcNext ==
    \/ HandleGetReports
    \/ ConcPostAnswered
    \/ ConcPollAnswered
    \/ PollSleepDone
    \/ ConcDownloadAnswered
    \/ Switch

ConcSpec == ConcInit /\ [][ConcNext]_vars

-----------------------------------------------------------------------------
(* Specification of the date utilities *)

DateInit ==
    /\ WorkflowIdle
    /\ retry = RetryIdle
    /\ metric = MetricIdle
    /\ tool = ToolIdle
    /\ inst = InstIdle
    /\ parked = NotParked
    /\ date \in DateCalls
    /\ rpc = RpcIdle
    /\ stdio = StdioIdle

DateNext ==
    \/ ToAmazonDateFormat
    \/ FromAmazonDateFormat
    \/ IsValidAmazonDate

DateSpec == DateInit /\ [][DateNext]_vars

-----------------------------------------------------------------------------
(* Specification of pollReportStatus on its own *)

PollInit ==
    /\ args \in PollCalls
    /\ client \in {NewClient(cred) : cred \in {c \in Credentials : Truthy(c.profile_id)}}
    /\ pc = "pollCall"
    /\ reportId = Undefined
    /\ maxAttempts = 0
    /\ pollIntervalMs = 0
    /\ attempts = 0
    /\ requests = <<>>
    /\ sleeps = <<>>
    /\ thrown = Undefined
    /\ returned = Undefined
    /\ pendingBody \in PendingBodies
    /\ retry = RetryIdle
    /\ metric = MetricIdle
    /\ tool = ToolIdle
    /\ inst = InstIdle
    /\ parked = NotParked
    /\ date = DateIdle
    /\ rpc = RpcIdle
    /\ stdio = StdioIdle

PollNext ==
    \/ PollReportStatus
    \/ PollStatusAnswered
    \/ PollStatusSleepDone

PollSpec == PollInit /\ [][PollNext]_vars

-----------------------------------------------------------------------------
(* Specification of the three bounded loops: a call of one of the retry
   executors, or a call of pollReportStatus *)

LoopInit == RetryInit \/ PollInit

LoopNext == RetryNext \/ PollNext

LoopSpec == LoopInit /\ [][LoopNext]_vars

-----------------------------------------------------------------------------
(* Specification of the HTTP transport *)

RpcInit ==
    /\ WorkflowIdle
    /\ retry = RetryIdle
    /\ metric = MetricIdle
    /\ tool = ToolIdle
    /\ inst = InstIdle
    /\ parked = NotParked
    /\ date = DateIdle
    /\ rpc \in RpcCalls
    /\ stdio = StdioIdle

RpcNext ==
    \/ McpPost
    \/ ToolCallSettled

RpcSpec == RpcInit /\ [][RpcNext]_vars

-----------------------------------------------------------------------------
(* Specification of the stdio transport *)

StdioInit ==
    /\ WorkflowIdle
    /\ retry = RetryIdle
    /\ metric = MetricIdle
    /\ tool = ToolIdle
    /\ inst = InstIdle
    /\ parked = NotParked
    /\ date = DateIdle
    /\ rpc = RpcIdle
    /\ stdio \in StdioCalls

StdioNext ==
    \/ CallTool
    \/ TokensAnswered
    \/ HandleGetProfiles
    \/ GetProfilesAnswered
    \/ HandleHealthcheck
    \/ HealthcheckAnswered
    \/ HandleGetCampaigns
    \/ GetCampaignsAnswered
    \/ HandleGetAdGroups
    \/ GetAdGroupsAnswered
    \/ HandleGetKeywords
    \/ GetKeywordsAnswered
    \/ HandleGetProductAds
    \/ GetProductAdsAnswered
    \/ HandleGetReports
    \/ PostAnswered
    \/ PollAnswered
    \/ PollSleepDone
    \/ DownloadAnswered
    \/ HandlerSettled

StdioSpec == StdioInit /\ [][StdioNext]_vars

-----------------------------------------------------------------------------
(* Properties of the report workflow (checked under Spec) *)

Posts == {i \in 1..Len(requests) : requests[i].method = "POST"}
Gets == {i \in 1..Len(requests) : requests[i].method = "GET"}
Downloads == {i \in 1..Len(requests) : requests[i].method = "DOWNLOAD"}

Ended == pc \in {"done", "failed"}

\* Request i has been answered, and not with an error.
AnsweredOk(i) == requests[i].answer # Undefined /\ requests[i].answer[1].ok

\* Request i has been answered with an HTTP error or has failed in transport.
AnsweredFailed(i) == requests[i].answer # Undefined /\ ~requests[i].answer[1].ok

\* Status GET i was answered with the given status value.
StatusAnswer(i, value) ==
    AnsweredOk(i) /\ requests[i].answer[1].data.status = Some(value)

\* Status GET i was answered SUCCESS with a non-empty location.
SuccessWithLocation(i) ==
    StatusAnswer(i, "SUCCESS") /\ Truthy(requests[i].answer[1].data.location)

\* C1: when the submission returns reportId R and the status GETs are answered k
\* times IN_PROGRESS and then SUCCESS with a non-empty location, exactly k+1
\* status GETs are issued, all for R, then exactly one download, and the handler
\* returns as many normalized rows as the downloaded array holds; a run whose
\* polls are all answered IN_PROGRESS does not end before the ceiling of polls.
C1_PollsThenRows ==
    /\ \A i \in Gets :
          (SuccessWithLocation(i) /\ \A j \in Gets : j < i => StatusAnswer(j, "IN_PROGRESS"))
          => LET k == Cardinality({j \in Gets : j < i})
             IN  /\ Cardinality(Gets) = k + 1
                 /\ \A j \in Gets :
                       \E p \in Posts :
                          /\ AnsweredOk(p)
                          /\ requests[j].path =
                               <<"/v2/reports/", requests[p].answer[1].data.reportId[1]>>
                 /\ Cardinality(Downloads) = 1
                 /\ \A d \in Downloads :
                       /\ d = i + 1
                       /\ (AnsweredOk(d) /\ requests[d].answer[1].data.isArray)
                          => /\ pc = "done"
                             /\ returned # Undefined
                             /\ Len(returned[1].report_data)
                                  = Len(requests[d].answer[1].data.rows)
    /\ (Ended /\ Gets # {} /\ \A j \in Gets : StatusAnswer(j, "IN_PROGRESS"))
       => Cardinality(Gets) = PollMaxAttempts

\* C1 witness: two IN_PROGRESS answers, then SUCCESS, then a 3-row array: 3 polls
\* and 3 rows.
C1_Witness ==
    /\ pc = "done"
    /\ Cardinality(Gets) = 3
    /\ \A j \in Gets : j < Len(requests) - 1 => StatusAnswer(j, "IN_PROGRESS")
    /\ Cardinality(Downloads) = 1
    /\ requests[Len(requests)].answer[1].data.isArray
    /\ Len(returned[1].report_data) = 3

\* Every status GET of the run was answered IN_PROGRESS, up to the ceiling.
AllPollsInProgress ==
    /\ Cardinality(Gets) = PollMaxAttempts
    /\ \A j \in Gets : StatusAnswer(j, "IN_PROGRESS")

\* C2 as stated: polls that never leave IN_PROGRESS end the workflow with an
\* error of kind TIMEOUT, not the kind surfaced for FAILURE.
C2_TimeoutKind ==
    AllPollsInProgress => (pc = "failed" /\ thrown[1].type = Some("TIMEOUT"))

\* C2 amended: polls that never leave IN_PROGRESS end the workflow, after exactly
\* maxAttempts GETs and no download, with an error of type UPSTREAM (the type
\* FAILURE is surfaced with), upstream_code null, and the message "Report
\* generation timeout after 30 attempts", which no FAILURE message equals.
C2_TimeoutIsUpstreamWithOwnMessage ==
    /\ AllPollsInProgress
       => /\ pc = "failed"
          /\ Downloads = {}
          /\ thrown # Undefined
          /\ thrown[1].type = Some("UPSTREAM")
          /\ thrown[1].upstream_code = Null
          /\ thrown[1].message = <<"Report generation timeout after ", "30", " attempts">>
          /\ thrown[1].message[1] # "Report generation failed: "
    /\ \A i \in Gets :
          StatusAnswer(i, "FAILURE")
          => /\ thrown # Undefined
             /\ thrown[1].type = Some("UPSTREAM")
             /\ thrown[1].message[1] = "Report generation failed: "

\* C2 witness: the 30th poll was answered IN_PROGRESS and the handler has failed.
C2_Witness == AllPollsInProgress /\ pc = "failed" /\ Len(sleeps) = PollMaxAttempts - 1

\* C3: a status answer FAILURE with statusDetails X ends the workflow at once: it
\* is the last request (no further GET, no download), and the error raised to
\* the caller carries X in its message.
C3_FailureFailsFast ==
    \A i \in Gets :
        StatusAnswer(i, "FAILURE")
        => /\ i = Len(requests)
           /\ pc = "failed"
           /\ thrown # Undefined
           /\ \A x \in {"X", "quota exceeded", ""} :
                 requests[i].answer[1].data.statusDetails = Some(x)
                 => Includes(thrown[1].message, x)

\* C3 witness: the third poll is answered FAILURE with statusDetails "X".
C3_Witness ==
    /\ pc = "failed"
    /\ Cardinality(Gets) = 3
    /\ StatusAnswer(Len(requests), "FAILURE")
    /\ requests[Len(requests)].answer[1].data.statusDetails = Some("X")

\* No profile_id is bound: neither on the client nor in user_credentials.
NoProfileBound ==
    /\ ~Truthy(client.profileId)
    /\ (args.user_credentials = Undefined
        \/ ~Truthy(args.user_credentials[1].profile_id))

\* date_range lacks start_date or end_date.
DateRangeIncomplete ==
    \/ args.date_range = Undefined
    \/ ~Truthy(args.date_range[1].start_date)
    \/ ~Truthy(args.date_range[1].end_date)

\* C4: a get_reports call without a bound profile_id, or without start_date or
\* end_date, fails with the VALIDATION error as it was thrown (type VALIDATION, no
\* upstream_code, its own message), and no upstream request is issued.
C4_ValidationBeforeNetwork ==
    (pc \notin {"start", "idle"} /\ (NoProfileBound \/ DateRangeIncomplete))
    => /\ pc = "failed"
       /\ requests = <<>>
       /\ thrown # Undefined
       /\ thrown[1].type = Some("VALIDATION")
       /\ thrown[1].upstream_code = Undefined
       /\ thrown[1].message =
            IF NoProfileBound
            THEN <<"profile_id is required in user_credentials">>
            ELSE <<"date_range with start_date and end_date is required">>

\* C4 witness: the profile is bound through user_credentials, end_date is
\* missing, and the handler has run.
C4_Witness ==
    /\ pc = "failed"
    /\ ~NoProfileBound
    /\ args.date_range # Undefined
    /\ Truthy(args.date_range[1].start_date)
    /\ ~Truthy(args.date_range[1].end_date)

\* C9 as stated: a status GET answered with HTTP 429, with HTTP >= 500 or failing
\* in transport is retried before an error is surfaced: the workflow does not
\* fail on such an answer unless the GET before it failed too.
C9_PollErrorsRetried ==
    \A i \in Gets :
        (/\ pc = "failed"
         /\ i = Len(requests)
         /\ AnsweredFailed(i)
         /\ \/ ~requests[i].answer[1].hasResponse
            \/ requests[i].answer[1].status = 429
            \/ requests[i].answer[1].status >= 500)
        => (i - 1 \in Gets /\ AnsweredFailed(i - 1))

\* C10: at most one submission POST is issued; when it fails it is the only
\* request of the run, and the run has ended with the client's error for that
\* answer surfaced to the caller.
C10_SingleSubmission ==
    /\ Cardinality(Posts) <= 1
    /\ \A p \in Posts :
          AnsweredFailed(p)
          => /\ Len(requests) = 1
             /\ pc = "failed"
             /\ thrown # Undefined
             /\ thrown[1].type = Some("UPSTREAM")
             /\ thrown[1].message = Interceptor(requests[p].answer[1]).message

\* C10 witness: the submission was answered with HTTP 500.
C10_Witness ==
    /\ pc = "failed"
    /\ Posts = {1}
    /\ AnsweredFailed(1)
    /\ requests[1].answer[1].status = 500

-----------------------------------------------------------------------------
(* Properties of the retry executors (checked under RetrySpec) *)

\* The error the i-th invocation threw.
CallError(i) == FnError(retry.calls[i], i)

\* The i-th invocation failed.
CallFailed(i) == i \in 1..Len(retry.calls) /\ ~retry.calls[i].ok

\* The i-th invocation failed with the scoped client's error for HTTP 401 or 403.
ClassifiedAuthFailure(i) ==
    /\ CallFailed(i)
    /\ retry.calls[i].viaClient
    /\ retry.calls[i].upstream.status \in {401, 403}

\* The i-th invocation failed on an upstream 5xx answer or in transport.
TransientFailure(i) ==
    /\ CallFailed(i)
    /\ \/ ~retry.calls[i].upstream.hasResponse
       \/ retry.calls[i].upstream.status >= 500

\* The i-th invocation failed with an error whose response has status 429 and
\* the given retry-after header.
RateLimitFailure(i, ra) ==
    /\ CallFailed(i)
    /\ CallError(i).response # Undefined
    /\ CallError(i).response[1].status = 429
    /\ CallError(i).response[1].retryAfter = ra

\* C5 as stated: under retryWithBackoff an operation failing with the client's
\* AUTH or FORBIDDEN error is invoked exactly once, without a sleep or a retry.
C5_AuthNotRetried ==
    (retry.policy = "backoff" /\ ClassifiedAuthFailure(1))
    => (retry.pc = "thrown" /\ retry.invocations = 1 /\ retry.sleeps = <<>>)

\* C6: under retryWithBackoff with maxAttempts = n >= 1, an operation failing
\* every time on a 5xx answer or in transport is invoked exactly n times and the
\* error raised is the one its n-th invocation threw; an operation that succeeds
\* on its i-th invocation is invoked exactly i times and its value is returned.
C6_BackoffExhaustsOrReturns ==
    retry.policy = "backoff"
    => /\ (/\ retry.pc = "thrown"
           /\ retry.maxAttempts >= 1
           /\ \A i \in 1..Len(retry.calls) : TransientFailure(i))
          => /\ Len(retry.calls) = retry.maxAttempts
             /\ retry.invocations = retry.maxAttempts
             /\ retry.error = Some(CallError(retry.maxAttempts))
             /\ retry.error[1].oid = retry.maxAttempts
       /\ \A i \in 1..Len(retry.calls) :
             retry.calls[i].ok
             => /\ i <= retry.maxAttempts
                /\ i = Len(retry.calls)
                /\ retry.invocations = i
                /\ retry.pc = "returned"
                /\ retry.value = Some(retry.calls[i].value)

\* C6 witness: the default ceiling of 3, three failures on HTTP 500, two sleeps,
\* the third error raised.
C6_Witness ==
    /\ retry.policy = "backoff"
    /\ retry.maxAttempts = DefaultMaxAttempts
    /\ retry.pc = "thrown"
    /\ Len(retry.calls) = 3
    /\ \A i \in 1..3 : TransientFailure(i) /\ retry.calls[i].upstream.status = 500
    /\ Len(retry.sleeps) = 2

\* C7: under retryRateLimit with maxAttempts >= 3, after a first failure with a
\* rate-limit error carrying retry-after 1 the executor waits at least 1000 ms
\* and invokes again; after a second one carrying retry-after 2 it waits at least
\* 2000 ms and invokes again; when the third invocation succeeds, the operation
\* has been invoked exactly 3 times and its value is returned.
C7_RateLimitWaits ==
    (retry.policy = "ratelimit" /\ retry.maxAttempts >= 3 /\ RateLimitFailure(1, Some("1")))
    => /\ Len(retry.sleeps) >= 1
       /\ retry.sleeps[1] >= 1000
       /\ Len(retry.calls) = 1
          => (retry.pc = "sleep" \/ (retry.pc = "fn" /\ retry.invocations = 2))
       /\ RateLimitFailure(2, Some("2"))
          => /\ Len(retry.sleeps) >= 2
             /\ retry.sleeps[2] >= 2000
             /\ Len(retry.calls) = 2
                => (retry.pc = "sleep" \/ (retry.pc = "fn" /\ retry.invocations = 3))
             /\ (Len(retry.calls) >= 3 /\ retry.calls[3].ok)
                => /\ retry.pc = "returned"
                   /\ Len(retry.calls) = 3
                   /\ retry.invocations = 3
                   /\ retry.value = Some(retry.calls[3].value)

\* C7 witness: 429 with retry-after 1, 429 with retry-after 2, then success.
C7_Witness ==
    /\ retry.policy = "ratelimit"
    /\ retry.maxAttempts >= 3
    /\ RateLimitFailure(1, Some("1"))
    /\ RateLimitFailure(2, Some("2"))
    /\ Len(retry.calls) = 3
    /\ retry.calls[3].ok
    /\ retry.pc = "returned"
    /\ retry.sleeps = <<1000, 2000>>

\* C8: under retryRateLimit a failure with an error that is not a rate-limit
\* error (no response with status 429) ends the run at that invocation: that
\* error is raised as it is and no sleep follows; when it is the first failure
\* the operation has been invoked exactly once and no sleep has occurred.
C8_OnlyRateLimitRetried ==
    retry.policy = "ratelimit"
    => \A i \in 1..Len(retry.calls) :
          (CallFailed(i) /\ ~(CallError(i).response # Undefined
                              /\ CallError(i).response[1].status = 429))
          => /\ i = Len(retry.calls)
             /\ retry.invocations = i
             /\ retry.pc = "thrown"
             /\ retry.error = Some(CallError(i))
             /\ Len(retry.sleeps) = i - 1

\* C8 witness: the first invocation fails on HTTP 500 although two more attempts
\* are allowed.
C8_Witness ==
    /\ retry.policy = "ratelimit"
    /\ retry.maxAttempts >= 3
    /\ retry.pc = "thrown"
    /\ Len(retry.calls) = 1
    /\ TransientFailure(1)
    /\ retry.calls[1].upstream.status = 500
    /\ retry.invocations = 1
    /\ retry.sleeps = <<>>

-----------------------------------------------------------------------------
(* Further properties of the report workflow (checked under Spec) *)

\* C11: a status answer SUCCESS without a location (absent or empty) ends the
\* workflow at once: it is the last request, no download is ever issued, and the
\* error raised to the caller has type UPSTREAM.
C11_SuccessWithoutLocationFails ==
    \A i \in Gets :
        (StatusAnswer(i, "SUCCESS") /\ ~Truthy(requests[i].answer[1].data.location))
        => /\ i = Len(requests)
           /\ Downloads = {}
           /\ pc = "failed"
           /\ returned = Undefined
           /\ thrown # Undefined
           /\ thrown[1].type = Some("UPSTREAM")
           /\ thrown[1].message = <<"Report completed but no download URL provided">>

\* C11 witness: the second poll is answered SUCCESS with an empty location.
C11_Witness ==
    /\ pc = "failed"
    /\ Cardinality(Gets) = 2
    /\ StatusAnswer(Len(requests), "SUCCESS")
    /\ requests[Len(requests)].answer[1].data.location = Some("")

OtherStatus(o) ==
    o.hasResponse /\ o.status \notin {401, 403, 429} /\ o.status < 500

\* C13: the error of a failed request made through the scoped client is decided
\* by the first rule that matches: 401 -> the invalid-token error; 403 -> the
\* forbidden error; 429 -> the rate-limit error carrying the retry-after header,
\* or 60 without one; 500 and up -> the server error; otherwise a body code ->
\* the application error carrying code and details; a failure without a response
\* and any other status without a body code keep the original error (its message
\* and its response status).  A body code never changes what a status rule gave.
C13_ClassifiedInOrder ==
    \A i \in 1..Len(requests) :
        (requests[i].scoped /\ AnsweredFailed(i))
        => LET o == requests[i].answer[1]
           IN  /\ pc = "failed"
               /\ thrown # Undefined
               /\ (o.hasResponse /\ o.status = 401)
                  => /\ thrown[1].message = <<"Invalid or expired access token">>
                     /\ thrown[1].upstream_code = Null
               /\ (o.hasResponse /\ o.status = 403)
                  => /\ thrown[1].message =
                          <<"Access forbidden - check profile_id and permissions">>
                     /\ thrown[1].upstream_code = Null
               /\ (o.hasResponse /\ o.status = 429)
                  => /\ thrown[1].message =
                          <<"Rate limit exceeded. Retry after ",
                            IF o.retryAfter = Undefined THEN "60" ELSE o.retryAfter[1],
                            " seconds">>
                     /\ thrown[1].upstream_code = Null
               /\ (o.hasResponse /\ o.status >= 500)
                  => /\ thrown[1].message =
                          <<"Amazon API server error. Please try again later">>
                     /\ thrown[1].upstream_code = Null
               /\ (OtherStatus(o) /\ o.code # Undefined)
                  => /\ thrown[1].message =
                          <<"Amazon API error: ", o.code[1], " - ",
                            IF o.details = Undefined THEN "Unknown error"
                            ELSE o.details[1]>>
                     /\ thrown[1].upstream_code = Null
               /\ (OtherStatus(o) /\ o.code = Undefined)
                  => /\ thrown[1].message =
                          <<"Request failed with status code ", ToString(o.status)>>
                     /\ thrown[1].upstream_code = Some(o.status)
               /\ ~o.hasResponse
                  => /\ thrown[1].message = <<"Network Error">>
                     /\ thrown[1].upstream_code = Null

\* C13 witness: a status GET answered 500 with a body code: the status rule wins.
C13_Witness ==
    /\ pc = "failed"
    /\ Len(requests) = 2
    /\ AnsweredFailed(2)
    /\ requests[2].answer[1].status = 500
    /\ requests[2].answer[1].code = Some("INVALID_ARGUMENT")
    /\ thrown[1].message = <<"Amazon API server error. Please try again later">>

\* C14 as stated: when a request made through the scoped client is answered with
\* an HTTP error status S, the error the handler raises has type UPSTREAM and
\* upstream_code S.
C14_UpstreamCodeIsStatus ==
    \A i \in 1..Len(requests) :
        (requests[i].scoped /\ AnsweredFailed(i) /\ requests[i].answer[1].hasResponse)
        => /\ pc = "failed"
           /\ thrown # Undefined
           /\ thrown[1].type = Some("UPSTREAM")
           /\ thrown[1].upstream_code = Some(requests[i].answer[1].status)

\* The three steps of a successful run have all happened.
AllStepsSucceeded ==
    /\ \E p \in Posts : AnsweredOk(p)
    /\ \E g \in Gets : SuccessWithLocation(g)
    /\ \E d \in Downloads : AnsweredOk(d)

\* C16: get_reports returns a result only when the submission succeeded, a poll
\* answered SUCCESS with a non-empty location and the download succeeded, and the
\* result then holds one row per downloaded row; every other run that ends, ends
\* with an error and without a result.
C16_ResultOnlyAfterAllSteps ==
    /\ returned # Undefined
       => /\ pc = "done"
          /\ thrown = Undefined
          /\ AllStepsSucceeded
          /\ \A d \in Downloads :
                LET body == requests[d].answer[1].data
                IN  Len(returned[1].report_data)
                      = IF body.isArray THEN Len(body.rows) ELSE 1
    /\ (Ended /\ ~AllStepsSucceeded)
       => /\ pc = "failed"
          /\ thrown # Undefined
          /\ returned = Undefined
    /\ pc = "failed" => (thrown # Undefined /\ returned = Undefined)

\* C16 witness: submission and polls succeed, the download fails, and the run
\* has ended with an error.
C16_Witness ==
    /\ pc = "failed"
    /\ \E p \in Posts : AnsweredOk(p)
    /\ \E g \in Gets : SuccessWithLocation(g)
    /\ Downloads # {}
    /\ \A d \in Downloads : AnsweredFailed(d)
    /\ returned = Undefined
    /\ thrown # Undefined

\* C20: the summary holds the sums of impressions, clicks, cost, sales and orders
\* over the normalized rows, and its four ratios are the quotients of those sums
\* (0 for a zero divisor), rounded to 4, 2, 4 and 2 decimals; for the rows
\* (100, 10, 5.00, 50.00) and (200, 20, 10.00, 100.00) it is 300, 30, 15.00,
\* 150.00, overall_acos 0.10 and overall_roas 10.00.
C20_SummaryFromSums ==
    pc = "done"
    => LET rows == returned[1].report_data
           s == returned[1].summary
           Quotient(a, b) == IF b.n = 0 THEN Zero ELSE Frac(a.n * b.d, a.d * b.n)
       IN  /\ s.total_impressions = SumField(rows, "impressions")
           /\ s.total_clicks = SumField(rows, "clicks")
           /\ s.total_cost = SumAmount(rows, "cost")
           /\ s.total_sales = SumAmount(rows, "sales")
           /\ s.total_orders = SumField(rows, "orders")
           /\ s.avg_ctr = ToFixed(Quotient(Num(s.total_clicks), Num(s.total_impressions)), 4)
           /\ s.avg_cpc = ToFixed(Quotient(s.total_cost, Num(s.total_clicks)), 2)
           /\ s.overall_acos = ToFixed(Quotient(s.total_cost, s.total_sales), 4)
           /\ s.overall_roas = ToFixed(Quotient(s.total_sales, s.total_cost), 2)
           /\ (/\ Len(rows) = 2
               /\ \E a \in 1..2, b \in 1..2 :
                     /\ a # b
                     /\ rows[a].impressions = 100 /\ rows[a].clicks = 10
                     /\ rows[a].cost = Num(5) /\ rows[a].sales = Num(50)
                     /\ rows[b].impressions = 200 /\ rows[b].clicks = 20
                     /\ rows[b].cost = Num(10) /\ rows[b].sales = Num(100))
              => /\ s.total_impressions = 300
                 /\ s.total_clicks = 30
                 /\ s.total_cost = Num(15)
                 /\ s.total_sales = Num(150)
                 /\ s.overall_acos = Frac(10, 100)
                 /\ s.overall_roas = Num(10)

\* C20 witness: the download yields the two rows of the example, in that order.
C20_Witness ==
    /\ pc = "done"
    /\ Len(returned[1].report_data) = 2
    /\ returned[1].report_data[1].impressions = 100
    /\ returned[1].report_data[2].impressions = 200
    /\ returned[1].summary.total_cost = Num(15)
    /\ returned[1].summary.overall_roas = Num(10)

-----------------------------------------------------------------------------
(* Properties of the metric formulas (checked under MetricsSpec) *)

MetricNames == {"ctr", "cpc", "acos", "roas", "cpa", "conversionRate"}

-----------------------------------------------------------------------------
(* Properties of handleHealthcheck (checked under ToolSpec) *)

\* C15: handleHealthcheck never raises: once the profiles request is answered,
\* with success, any HTTP error or a transport failure, it has returned a status
\* object; status 'healthy', api_connectivity and profiles_accessible hold in it
\* exactly when the profiles request succeeded.
C15_HealthcheckNeverRaises ==
    (tool.pc # "idle" /\ tool.name = "healthcheck")
    => /\ tool.pc # "failed"
       /\ tool.thrown = Undefined
       /\ (tool.requests # <<>> /\ tool.requests[1].answer # Undefined)
          => /\ tool.pc = "done"
             /\ tool.returned # Undefined
             /\ LET r == tool.returned[1]
                    ok == tool.requests[1].answer[1].ok
                IN  /\ (r.status = "healthy" /\ r.api_connectivity /\ r.profiles_accessible)
                       <=> ok
                    /\ (r.status = "healthy") <=> ok
                    /\ r.api_connectivity <=> ok
                    /\ r.profiles_accessible <=> ok

\* C15 witness: the profiles request is answered 401 and a status object that
\* is not healthy has been returned.
C15_Witness ==
    /\ tool.pc = "done"
    /\ tool.name = "healthcheck"
    /\ ~tool.requests[1].answer[1].ok
    /\ tool.requests[1].answer[1].status = 401
    /\ tool.returned[1].status = "unhealthy"
    /\ ~tool.returned[1].api_connectivity

-----------------------------------------------------------------------------
(* Properties of one client instance (checked under ClientSpec) *)

\* The setProfile calls made before the k-th call.
SetProfilesBefore(k) == {j \in 1..(k - 1) : inst.calls[j].kind = "setProfile"}

\* The argument of the latest setProfile call before the k-th call.
LatestProfile(k) ==
    inst.calls[CHOOSE j \in SetProfilesBefore(k) :
                  \A m \in SetProfilesBefore(k) : m <= j].profileId

\* C18: once setProfile has been called, getProfileId returns the argument of
\* the latest call, and every request made after it carries that argument in
\* the scope header; every request carries the bearer token and the client id the
\* instance was constructed with, whatever setProfile calls came before.
C18_LatestProfileScopesRequests ==
    inst.pc = "live"
    => /\ SetProfilesBefore(Len(inst.calls) + 1) # {}
          => getProfileId(inst.client) = LatestProfile(Len(inst.calls) + 1)
       /\ inst.client.headers.Authorization = <<"Bearer ", inst.config.access_token>>
       /\ inst.client.headers.ClientId = Some(inst.config.client_id)
       /\ \A k \in 1..Len(inst.calls) :
             inst.calls[k].kind = "request"
             => LET h == inst.calls[k].request[1].headers
                IN  /\ SetProfilesBefore(k) # {} => h.Scope = LatestProfile(k)
                    /\ h.Authorization = <<"Bearer ", inst.config.access_token>>
                    /\ h.ClientId = Some(inst.config.client_id)

\* C18 witness: setProfile("P1"), a GET, setProfile("P2"), a POST.
C18_Witness ==
    /\ inst.pc = "live"
    /\ Len(inst.calls) = 4
    /\ inst.calls[1].profileId = Some("P1")
    /\ inst.calls[2].kind = "request"
    /\ inst.calls[2].request[1].method = "GET"
    /\ inst.calls[3].profileId = Some("P2")
    /\ inst.calls[4].kind = "request"
    /\ inst.calls[4].request[1].method = "POST"
    /\ inst.calls[4].request[1].headers.Scope = Some("P2")

-----------------------------------------------------------------------------
(* Properties of two interleaved invocations (checked under ConcSpec) *)

\* The requests invocation i has issued so far.
OwnRequests(i) == IF parked.self = i THEN requests ELSE parked.state.requests

\* C17: whatever the interleaving, every request an invocation makes through
\* its client carries that invocation's bearer token, client id and profile id,
\* and every status GET of an invocation is for the report id its own
\* submission was answered with.
C17_InvocationsDoNotInterfere ==
    parked.self # 0
    => \A i \in {1, 2} :
          LET log == OwnRequests(i)
          IN  \A k \in 1..Len(log) :
                 log[k].scoped
                 => /\ log[k].headers.Authorization
                         = <<"Bearer ", ConcCredentials[i].access_token>>
                    /\ log[k].headers.ClientId = Some(ConcCredentials[i].client_id)
                    /\ log[k].headers.Scope = ConcCredentials[i].profile_id
                    /\ log[k].method = "GET"
                       => /\ log[1].method = "POST"
                          /\ log[1].answer # Undefined
                          /\ log[1].answer[1].ok
                          /\ log[k].path
                               = <<"/v2/reports/", log[1].answer[1].data.reportId[1]>>

\* C17 witness: both invocations are polling, one for R1 and the other for R2,
\* and the running one has already been resumed after the other's submission.
C17_Witness ==
    /\ parked.self = 1
    /\ pc = "poll"
    /\ parked.state.pc = "sleep"
    /\ requests[Len(requests)].path = <<"/v2/reports/", "R1">>
    /\ Len(parked.state.requests) = 2
    /\ parked.state.requests[2].path = <<"/v2/reports/", "R2">>
    /\ Len(requests) = 3

-----------------------------------------------------------------------------
(* Properties of the date utilities (checked under DateSpec) *)

\* The string is 8 digits whose month and day fields name a real calendar date.
RealDateString(chars) ==
    /\ EightDigits(chars)
    /\ LET y == DigitsValue(SubSeq(chars, 1, 4))
           m == DigitsValue(SubSeq(chars, 5, 6))
           d == DigitsValue(SubSeq(chars, 7, 8))
       IN  /\ m \in 1..12
           /\ d \in 1..DaysInMonth(y, m - 1)

\* The year written in the first four characters.
YearField(chars) == DigitsValue(SubSeq(chars, 1, 4))

\* The two round trips, from the dates and from the strings so restricted.
RoundTripWhere(dateOk, stringOk) ==
    /\ (date.values[1].kind = "date" /\ dateOk)
       => /\ date.pc # "thrown"
          /\ Len(date.values) = 3 => date.values[3].date = date.values[1].date
    /\ (date.values[1].kind = "string" /\ RealDateString(date.values[1].chars) /\ stringOk)
       => /\ date.pc # "thrown"
          /\ Len(date.values) = 3 => date.values[3].chars = date.values[1].chars

\* C21 as stated: for every calendar date d, fromAmazonDateFormat(
\* toAmazonDateFormat(d)) is the same year, month and day, and for every 8-digit
\* string s of a real calendar date, toAmazonDateFormat(fromAmazonDateFormat(s))
\* is s.
C21_RoundTrip ==
    date.pc # "idle" => RoundTripWhere(TRUE, TRUE)

\* The two round trips do hold for the dates of the years 1000 to 9999 and for
\* the strings whose year field is 1000 or more.
RoundTripFourDigitYears ==
    date.pc # "idle"
    => RoundTripWhere(date.values[1].date.year \in 1000..9999,
                      YearField(date.values[1].chars) >= 1000)

\* C22 as stated: isValidAmazonDate is false for every string that is not 8
\* digits and for every 8-digit string whose month and day are not a real date.
C22_RejectsImpossibleDates ==
    (date.pc = "validated" /\ ~RealDateString(date.values[1].chars))
    => date.valid = Some(FALSE)

-----------------------------------------------------------------------------
(* Properties of the normalized rows (checked under Spec) *)

\* The first value of the list that is present, none when none is.
FirstPresent(list) ==
    IF \A i \in 1..Len(list) : list[i] = Undefined THEN Undefined
    ELSE list[CHOOSE i \in 1..Len(list) :
                 list[i] # Undefined /\ \A j \in 1..(i - 1) : list[j] = Undefined]

\* The rows the download was answered with, as the handler receives them.
DownloadedRows == WrapRows(requests[Len(requests)].answer[1].data)

-----------------------------------------------------------------------------
(* Failed status polls (checked under Spec) *)

\* C30: a status GET that fails, with an HTTP error or in transport, is the
\* last request of the workflow: no status GET, no sleep and no download follows
\* it, nothing is returned and an error is surfaced to the caller.
C30_FailedPollStops ==
    \A i \in Gets :
        AnsweredFailed(i)
        => /\ i = Len(requests)
           /\ Downloads = {}
           /\ Len(sleeps) = Cardinality(Gets) - 1
           /\ pc = "failed"
           /\ returned = Undefined
           /\ thrown # Undefined
           /\ thrown[1].type = Some("UPSTREAM")

\* C30 witness: the second status GET fails in transport, after one sleep.
C30_Witness ==
    /\ pc = "failed"
    /\ Cardinality(Gets) = 2
    /\ Len(requests) = 3
    /\ requests[3].answer = Some(TransportFailure)
    /\ Len(sleeps) = 1

-----------------------------------------------------------------------------
(* Properties of pollReportStatus on its own (checked under PollSpec) *)

\* C26: a run of pollReportStatus with attempt ceiling n >= 1 issues at most n
\* status GETs; every sleep lasts pollIntervalMs and lies between two consecutive
\* GETs (while a GET is awaited or the run has ended there is one sleep less
\* than GETs, during a sleep as many, and then fewer than n GETs), so that no
\* sleep follows the n-th GET and there are at most n - 1 sleeps; a parameter
\* left out is 30 attempts, or 2000 ms.
C26_PollsAndSleepsBounded ==
    (pc \in {"pollStatus", "pollSleep", "pollReturned", "pollThrown"} /\ maxAttempts >= 1)
    => /\ Cardinality(Gets) <= maxAttempts
       /\ Cardinality(Gets) = Len(requests)
       /\ \A k \in 1..Len(sleeps) : sleeps[k] = pollIntervalMs
       /\ Len(sleeps) <= maxAttempts - 1
       /\ pc # "pollSleep" => Len(sleeps) = Cardinality(Gets) - 1
       /\ pc = "pollSleep"
          => /\ Len(sleeps) = Cardinality(Gets)
             /\ Cardinality(Gets) < maxAttempts
       /\ maxAttempts = (IF args.maxAttempts = Undefined THEN 30 ELSE args.maxAttempts[1])
       /\ pollIntervalMs
            = (IF args.pollIntervalMs = Undefined THEN 2000 ELSE args.pollIntervalMs[1])

\* C26 witness: with ceiling 3 and the default interval, three GETs were answered
\* in progress with two sleeps of 2000 ms between them, and the run has ended.
C26_Witness ==
    /\ pc = "pollThrown"
    /\ args.maxAttempts = Some(3)
    /\ args.pollIntervalMs = Undefined
    /\ Cardinality(Gets) = 3
    /\ sleeps = <<2000, 2000>>
    /\ \A i \in Gets : AnsweredOk(i)

-----------------------------------------------------------------------------
(* Delays of the retry executors (checked under RetrySpec) *)

RECURSIVE Power(_, _)
\* b to the power e.
Power(b, e) == IF e = 0 THEN 1 ELSE Power(b, e - 1) * b

\* The error of the i-th invocation carries a response status from 400 to 499.
ClientErrorStatus(i) ==
    /\ CallError(i).response # Undefined
    /\ CallError(i).response[1].status \in 400..499

\* The run of the executor has ended.
RetryEnded == retry.pc \in {"returned", "thrown"}

HeaderSeconds(ra) == CHOOSE n \in 0..60 : ToString(n) = ra

\* C28: in retryRateLimit the sleep after the failed attempt a (from 0) is the
\* error's retry-after seconds times 1000 when the error carries that header,
\* and 1000 * 2^a otherwise; the last permitted attempt is followed by no sleep
\* and its error is raised as it was thrown.
C28_RateLimitDelays ==
    retry.policy = "ratelimit"
    => /\ \A k \in 1..Len(retry.sleeps) :
             LET ra == CallError(k).response[1].retryAfter
             IN  /\ CallFailed(k)
                 /\ k < retry.maxAttempts
                 /\ retry.sleeps[k]
                      = (IF ra # Undefined THEN HeaderSeconds(ra[1]) * 1000
                         ELSE 1000 * Power(2, k - 1))
       /\ (Len(retry.calls) = retry.maxAttempts /\ CallFailed(retry.maxAttempts))
          => /\ retry.pc = "thrown"
             /\ Len(retry.sleeps) = retry.maxAttempts - 1
             /\ retry.error = Some(CallError(retry.maxAttempts))

\* C28 witness: three permitted attempts were answered 429 without retry-after,
\* with retry-after 2, and without: sleeps of 1000 and 2000 ms, none after the
\* third, whose error is raised.
C28_Witness ==
    /\ retry.policy = "ratelimit"
    /\ retry.maxAttempts = 3
    /\ retry.pc = "thrown"
    /\ RateLimitFailure(1, Undefined)
    /\ RateLimitFailure(2, Some("2"))
    /\ RateLimitFailure(3, Undefined)
    /\ retry.sleeps = <<1000, 2000>>
    /\ retry.error = Some(CallError(3))

\* The i-th invocation failed with the error the scoped client gives for an
\* upstream answer of HTTP 429.
ClassifiedRateLimitFailure(i) ==
    /\ CallFailed(i)
    /\ retry.calls[i].viaClient
    /\ retry.calls[i].upstream.status = 429

\* C29 as stated: under retryRateLimit an invocation that fails with the scoped
\* client's error for HTTP 429, and is not the last permitted one, is followed
\* by a sleep of the retry-after seconds that error carries (60 without the
\* header), and then by another invocation.
C29_ClientRateLimitRetried ==
    retry.policy = "ratelimit"
    => \A i \in 1..Len(retry.calls) :
          (ClassifiedRateLimitFailure(i) /\ i < retry.maxAttempts)
          => /\ Len(retry.sleeps) >= i
             /\ retry.sleeps[i]
                  = 1000 * (IF retry.calls[i].upstream.retryAfter = Undefined THEN 60
                            ELSE HeaderSeconds(retry.calls[i].upstream.retryAfter[1]))
             /\ retry.pc # "thrown"

-----------------------------------------------------------------------------
(* Properties of the HTTP transport (checked under RpcSpec) *)

\* A tools/call of the named tool has been answered.
ToolCallAnswered(name) ==
    /\ rpc.pc = "responded"
    /\ rpc.request.method = "tools/call"
    /\ rpc.request.name = name
    /\ rpc.request.arguments # Undefined

\* The call carries direct credentials: access_token and client_id, no session
\* token.
DirectCredentials ==
    /\ rpc.request.arguments[1].user_credentials # Undefined
    /\ LET uc == rpc.request.arguments[1].user_credentials[1]
       IN  /\ uc.access_token # Undefined
           /\ uc.client_id # Undefined
           /\ uc.sessionToken = Undefined

\* The call's credentials name a profile.
ProfileGiven == Truthy(rpc.request.arguments[1].user_credentials[1].profile_id)

\* C24 as stated: a tools/call of any of the seven tools with valid direct
\* credentials (and a profile where the tool needs one), no upstream request of
\* which fails, is answered with a result and without an error member.
C24_ToolCallAnswersResult ==
    \A name \in ToolNames :
        (/\ ToolCallAnswered(name)
         /\ DirectCredentials
         /\ name \in ScopedToolNames => ProfileGiven
         /\ name = "get_reports" => rpc.request.arguments[1].date_range # Undefined)
        => /\ rpc.response[1].error = Undefined
           /\ rpc.response[1].result # Undefined

\* C25 as stated: a tools/call of get_reports with access_token and client_id
\* but no profile_id is answered with an error whose data.type is VALIDATION.
C25_ValidationKindReachesCaller ==
    (ToolCallAnswered("get_reports") /\ DirectCredentials /\ ~ProfileGiven)
    => /\ rpc.response[1].error # Undefined
       /\ rpc.response[1].error[1].data[1].type = "VALIDATION"

-----------------------------------------------------------------------------
(* Failure causes in handleHealthcheck (checked under ToolSpec) *)

\* C32 as stated: when the profiles request of handleHealthcheck is answered
\* with HTTP 5xx the returned status is 'degraded', and when it is answered with
\* 401 or 403 the returned status is 'unhealthy'.
C32_CausesDistinguished ==
    (tool.pc = "done" /\ tool.name = "healthcheck" /\ ~tool.requests[1].answer[1].ok
       /\ tool.requests[1].answer[1].hasResponse)
    => /\ tool.requests[1].answer[1].status >= 500
          => tool.returned[1].status = "degraded"
       /\ tool.requests[1].answer[1].status \in {401, 403}
          => tool.returned[1].status = "unhealthy"

-----------------------------------------------------------------------------
(* Order and content of the workflow's requests (checked under Spec) *)

\* C35: the upstream requests of a run are totally ordered: a request is issued
\* only when every earlier one has been answered; the submission POST is the
\* first and is answered successfully before any status GET; every status GET
\* is answered before the download, of which there is at most one, after all
\* the GETs; and every status GET asks for the reportId the POST was answered
\* with.
C35_RequestsInProgramOrder ==
    /\ \A i \in 1..(Len(requests) - 1) : requests[i].answer # Undefined
    /\ \A i \in 1..Len(requests) : requests[i].method = "POST" <=> i = 1
    /\ \A g \in Gets :
          /\ AnsweredOk(1)
          /\ requests[g].path = <<"/v2/reports/", requests[1].answer[1].data.reportId[1]>>
    /\ Cardinality(Downloads) <= 1
    /\ \A d \in Downloads :
          /\ d = Len(requests)
          /\ Gets = 2..(d - 1)
          /\ Gets # {}
          /\ \A g \in Gets : requests[g].answer # Undefined

\* C35 witness: the report R2 was submitted, polled twice and downloaded.
C35_Witness ==
    /\ pc = "done"
    /\ Len(requests) = 4
    /\ requests[1].answer[1].data.reportId = Some("R2")
    /\ requests[2].path = <<"/v2/reports/", "R2">>
    /\ requests[3].path = <<"/v2/reports/", "R2">>
    /\ requests[4].method = "DOWNLOAD"

\* C36: the download carries neither the bearer token nor the client id nor the
\* scope header; it goes to the location of the status payload that ended the
\* polling; when it fails, the error surfaced starts with 'Failed to download
\* report' and has type UPSTREAM without an upstream code.
C36_DownloadOutsideScopedClient ==
    \A d \in Downloads :
        /\ ~requests[d].scoped
        /\ requests[d].headers.Authorization = Undefined
        /\ requests[d].headers.ClientId = Undefined
        /\ requests[d].headers.Scope = Undefined
        /\ requests[d].path = <<requests[d - 1].answer[1].data.location[1]>>
        /\ AnsweredFailed(d)
           => /\ pc = "failed"
              /\ thrown # Undefined
              /\ thrown[1].type = Some("UPSTREAM")
              /\ thrown[1].message[1] = "Failed to download report: "
              /\ thrown[1].upstream_code = Null

\* C36 witness: the download from the location was answered 403 while the
\* scoped requests before it carried the three headers.
C36_Witness ==
    /\ pc = "failed"
    /\ Downloads # {}
    /\ requests[Len(requests)].path = <<"https://s3/L">>
    /\ requests[Len(requests)].answer[1].status = 403
    /\ requests[1].headers.Authorization = <<"Bearer ", "tokA">>
    /\ requests[1].headers.Scope # Undefined

\* Other end dates a caller may give.
OtherEndDates == {"20240107", "20240131", "20241231"}

\* The arguments with another end date.
WithEndDate(a, e) == [a EXCEPT !.date_range[1].end_date = Some(e)]

\* C37: the submission does not depend on the end date: the POST issued is the
\* one the same invocation issues with any other end date (same path and body,
\* the body's reportDate being the start date), and the result returned is the
\* one returned for another end date but for the end_date of its date_range.
C37_EndDateNotSent ==
    Posts # {}
    => /\ \A e \in OtherEndDates :
             LET req == ReportRequest(WithEndDate(args, e))
             IN  /\ requests[1].path = buildReportEndpoint(req.campaignType, req.reportType)
                 /\ requests[1].body = Some(ReportBody(req))
       /\ requests[1].body[1].reportDate = args.date_range[1].start_date[1]
       /\ returned # Undefined
          => /\ returned[1].date_range.end_date = args.date_range[1].end_date[1]
             /\ \A e \in OtherEndDates :
                   ReportResult(client, WithEndDate(args, e), DownloadedRows)
                     = [returned[1] EXCEPT !.date_range.end_date = e]

\* C37 witness: a report for 20240101..20240131 has been returned, submitted
\* with reportDate 20240101.
C37_Witness ==
    /\ pc = "done"
    /\ args.date_range[1].end_date = Some("20240131")
    /\ requests[1].body[1].reportDate = "20240101"
    /\ returned[1].date_range.end_date = "20240131"
    /\ returned[1].date_range.start_date = "20240101"

-----------------------------------------------------------------------------
(* Unfinished statuses in pollReportStatus (checked under PollSpec) *)

\* The status GETs answered with a payload that is neither SUCCESS nor FAILURE.
UnfinishedGets ==
    {i \in Gets : /\ AnsweredOk(i)
                  /\ requests[i].answer[1].data.status \notin {Some("SUCCESS"), Some("FAILURE")}}

\* C38: pollReportStatus treats every status other than SUCCESS and FAILURE
\* (IN_PROGRESS, any other text, none at all) alike: each such answer is counted
\* as an attempt; below the ceiling it is followed by a sleep and then by the
\* next GET; at the ceiling the run ends with the timeout error and no further
\* request.
C38_OtherStatusesKeepPolling ==
    (pc \in {"pollStatus", "pollSleep", "pollReturned", "pollThrown"} /\ maxAttempts >= 1)
    => /\ attempts = Cardinality(UnfinishedGets)
       /\ \A i \in UnfinishedGets :
             /\ i < maxAttempts
                => /\ Len(sleeps) >= i
                   /\ \/ pc = "pollSleep" /\ Len(requests) = i
                      \/ Len(requests) > i
             /\ i >= maxAttempts
                => /\ i = maxAttempts
                   /\ Len(requests) = i
                   /\ pc = "pollThrown"
                   /\ thrown = Some(NewError(TimeoutMessage(maxAttempts)))

\* C38 witness: with ceiling 2 both GETs were answered without any status; one
\* sleep lay between them and the run ended with the timeout error.
C38_Witness ==
    /\ pc = "pollThrown"
    /\ maxAttempts = 2
    /\ pendingBody.status = Undefined
    /\ UnfinishedGets = {1, 2}
    /\ Len(sleeps) = 1
    /\ thrown[1].message = <<"Report generation timeout after ", "2", " attempts">>

\* C38 second case: a report answered PENDING is polled again after the sleep.
PendingPolledAgain ==
    /\ pc = "pollStatus"
    /\ pendingBody.status = Some("PENDING")
    /\ UnfinishedGets = {1}
    /\ Len(requests) = 2

-----------------------------------------------------------------------------
(* Attempt ceilings of zero or less (checked under LoopSpec) *)

\* C40: with an attempt ceiling of zero or less, retryWithBackoff and
\* retryRateLimit never invoke the operation and never sleep, and what they
\* throw is lastError as declared, never assigned: undefined; pollReportStatus
\* issues no status GET, does not sleep, and throws the timeout error.
C40_EmptyLoops ==
    /\ (retry.pc # "idle" /\ retry.maxAttempts <= 0)
       => /\ retry.invocations = 0
          /\ retry.calls = <<>>
          /\ retry.sleeps = <<>>
          /\ retry.value = Undefined
          /\ retry.pc \in {"start", "thrown"}
          /\ retry.pc = "thrown"
             => retry.error = Undefined /\ retry.lastError = Undefined
    /\ (pc \in {"pollStatus", "pollSleep", "pollReturned", "pollThrown"} /\ maxAttempts <= 0)
       => /\ requests = <<>>
          /\ sleeps = <<>>
          /\ attempts = 0
          /\ pc = "pollThrown"
          /\ thrown = Some(NewError(TimeoutMessage(maxAttempts)))

\* C40 witness: retryRateLimit(fn, 0) has thrown without a single invocation.
C40_Witness ==
    /\ retry.pc = "thrown"
    /\ retry.policy = "ratelimit"
    /\ retry.maxAttempts = 0
    /\ retry.invocations = 0

\* C40, the other executor: retryWithBackoff with maxAttempts -1 has thrown.
BackoffEmptyLoopThrown ==
    /\ retry.pc = "thrown"
    /\ retry.policy = "backoff"
    /\ retry.maxAttempts = -1
    /\ retry.error = Undefined

\* C40, the poll: pollReportStatus(client, id, 0) has thrown the timeout error.
PollEmptyLoopThrown ==
    /\ pc = "pollThrown"
    /\ args.maxAttempts = Some(0)
    /\ requests = <<>>
    /\ thrown[1].message = <<"Report generation timeout after ", "0", " attempts">>

-----------------------------------------------------------------------------
(* Properties of the stdio transport (checked under StdioSpec) *)

\* The handler of a scoped tool has run its first segment.
ListHandlerEntered ==
    /\ stdio.pc \in {"handler", "answered", "failed"}
    /\ stdio.name \in ScopedToolNames \ {"get_reports"}
    /\ tool.pc \notin {"idle", "start"}

ReportHandlerEntered ==
    /\ stdio.pc \in {"handler", "answered", "failed"}
    /\ stdio.name = "get_reports"
    /\ pc \notin {"idle", "start"}

\* C31: in the five scoped tools no request leaves through a client without a
\* non-empty profile: every request of the scoped client carries a non-empty
\* scope header, and a handler whose client has no non-empty profile after the
\* caller's profile was bound has issued no request and raised VALIDATION.
C31_NoRequestWithoutProfile ==
    /\ ListHandlerEntered
       => /\ \A i \in 1..Len(tool.requests) : Truthy(tool.requests[i].headers.Scope)
          /\ ~Truthy(getProfileId(tool.client))
             => /\ tool.requests = <<>>
                /\ tool.pc = "failed"
                /\ tool.thrown[1].type = Some("VALIDATION")
                /\ tool.thrown[1].message = <<"profile_id is required in user_credentials">>
    /\ ReportHandlerEntered
       => /\ \A i \in 1..Len(requests) :
                requests[i].scoped => Truthy(requests[i].headers.Scope)
          /\ ~Truthy(getProfileId(client))
             => /\ requests = <<>>
                /\ pc = "failed"
                /\ thrown[1].type = Some("VALIDATION")
                /\ thrown[1].message = <<"profile_id is required in user_credentials">>

\* C31 witness: get_keywords was called with a session whose tokens carry no
\* profile, and without a profile of the caller's: VALIDATION, no request.
C31_Witness ==
    /\ ListHandlerEntered
    /\ stdio.name = "get_keywords"
    /\ stdio.tokenRequest # Undefined
    /\ stdio.created[1].profileId = Undefined
    /\ tool.pc = "failed"
    /\ tool.thrown[1].type = Some("VALIDATION")
    /\ tool.requests = <<>>

\* C31, a second case: the client came with the empty profile ''.
EmptyProfileTurnedAway ==
    /\ ListHandlerEntered
    /\ stdio.created[1].profileId = Some("")
    /\ tool.pc = "failed"
    /\ tool.requests = <<>>

\* The credentials of the call cannot be resolved to a client: none given; in
\* direct mode no access_token or no client_id; in session mode the token
\* endpoint has answered with a failure, an unsuccessful body or no access
\* token, or with tokens that leave the client id unknown.
CredentialsUnresolved ==
    /\ stdio.pc # "idle"
    /\ stdio.arguments # Undefined
    /\ LET uc == stdio.arguments[1].user_credentials
       IN  \/ uc = Undefined
           \/ /\ uc # Undefined
              /\ ~Truthy(uc[1].sessionToken)
              /\ ~Truthy(uc[1].access_token) \/ ~Truthy(uc[1].client_id)
           \/ /\ uc # Undefined
              /\ Truthy(uc[1].sessionToken)
              /\ stdio.tokenRequest # Undefined
              /\ stdio.tokenRequest[1].answer # Undefined
              /\ LET o == stdio.tokenRequest[1].answer[1]
                 IN  \/ ~o.ok
                     \/ ~o.data.success
                     \/ o.data.tokens = Undefined
                     \/ /\ o.data.tokens # Undefined
                        /\ \/ ~Truthy(o.data.tokens[1].access_token)
                           \/ /\ ~Truthy(o.data.tokens[1].client_id)
                              /\ ~Truthy(uc[1].client_id)

\* C33: when the credentials cannot be resolved, the call ends with the error
\* of createAmazonAdsClientFromRequest, no client has been made, no handler has
\* been called and no request to the advertising API has been issued.
C33_NoClientWithoutCredentials ==
    (stdio.pc \notin {"idle", "start"} /\ CredentialsUnresolved)
    => /\ stdio.pc = "failed"
       /\ stdio.error # Undefined
       /\ stdio.response = Undefined
       /\ stdio.created = Undefined
       /\ tool = ToolIdle
       /\ pc = "idle"
       /\ requests = <<>>
       /\ stdio.arguments[1].user_credentials = Undefined
          => stdio.error[1].message = <<"Missing user_credentials">>

\* C33 witness: the token endpoint sent an access token and no client id, the
\* caller gave none either, and the call has failed.
C33_Witness ==
    /\ stdio.pc = "failed"
    /\ CredentialsUnresolved
    /\ stdio.tokenRequest # Undefined
    /\ stdio.tokenRequest[1].answer[1].ok
    /\ stdio.tokenRequest[1].answer[1].data.tokens # Undefined
    /\ Truthy(stdio.tokenRequest[1].answer[1].data.tokens[1].access_token)
    /\ stdio.error[1].message = <<"Missing client_id in tokens or user_credentials">>

\* C33, other cases: the token endpoint answered 404; direct mode without token.
SessionNotFound ==
    /\ stdio.pc = "failed"
    /\ stdio.tokenRequest # Undefined
    /\ stdio.tokenRequest[1].answer[1].status = 404
    /\ stdio.error[1].message[1] = "Session not found or no "

DirectWithoutToken ==
    /\ stdio.pc = "failed"
    /\ stdio.tokenRequest = Undefined
    /\ stdio.error[1].message = <<"Missing access_token in user_credentials">>

\* C34: a call of an unknown tool fails with MethodNotFound, a call without
\* arguments with InvalidParams, and InternalError stands for the failures of
\* executing a tool only.
C34_ErrorCodeByCause ==
    stdio.pc = "failed"
    => /\ stdio.arguments = Undefined => stdio.error[1].code = "InvalidParams"
       /\ (stdio.arguments # Undefined /\ stdio.created # Undefined
             /\ stdio.name \notin ToolNames)
          => stdio.error[1].code = "MethodNotFound"
       /\ stdio.error[1].code = "InternalError"
          => (stdio.arguments # Undefined /\ stdio.name \in ToolNames)

\* The profile the caller sent, and the handler's client.
CallerProfile == stdio.arguments[1].user_credentials[1].profile_id

\* C39: in a scoped handler a non-empty profile of the caller's replaces the
\* profile the client was created with, the one of the token exchange too:
\* the client, every request made through it and the profile_id of the result
\* have the caller's value; without one, the client stays as it was created and
\* requests and result have the client's own profile.
C39_CallerProfileWins ==
    /\ ListHandlerEntered
       => LET own == IF Truthy(CallerProfile) THEN CallerProfile
                     ELSE stdio.created[1].profileId
          IN  /\ Truthy(CallerProfile) => tool.client = setProfile(stdio.created[1],
                                                                   CallerProfile[1])
              /\ ~Truthy(CallerProfile) => tool.client = stdio.created[1]
              /\ \A i \in 1..Len(tool.requests) : tool.requests[i].headers.Scope = own
              /\ tool.pc = "done" => tool.returned[1].profile_id = own
    /\ ReportHandlerEntered
       => LET own == IF Truthy(CallerProfile) THEN CallerProfile
                     ELSE stdio.created[1].profileId
          IN  /\ Truthy(CallerProfile) => client = setProfile(stdio.created[1],
                                                              CallerProfile[1])
              /\ ~Truthy(CallerProfile) => client = stdio.created[1]
              /\ \A i \in 1..Len(requests) :
                    requests[i].scoped => requests[i].headers.Scope = own
              /\ pc = "done" => returned[1].profile_id = own

\* C39 witness: the token exchange gave the profile P9, the caller sent P1, and
\* the report was submitted, polled and returned under P1.
C39_Witness ==
    /\ ReportHandlerEntered
    /\ pc = "done"
    /\ stdio.created[1].profileId = Some("P9")
    /\ CallerProfile = Some("P1")
    /\ requests[1].headers.Scope = Some("P1")
    /\ requests[2].headers.Scope = Some("P1")
    /\ returned[1].profile_id = Some("P1")

\* C39, the other case: no profile of the caller's, the client's own P9 is used.
OwnProfileKept ==
    /\ ListHandlerEntered
    /\ tool.pc = "done"
    /\ CallerProfile = Undefined
    /\ tool.requests[1].headers.Scope = Some("P9")
    /\ tool.returned[1].profile_id = Some("P9")

====
